---- MODULE Spec2Model ----
(***************************************************************************)
(* A model of zagora (src/src/index.ts): the builder's handler /           *)
(* handlerSync wrappers, their validation steps, the error helpers and     *)
(* the dual result value.                                                  *)
(*                                                                         *)
(* JavaScript values are records tagged by the field k.  A schema is a     *)
(* name; Validate gives what its "~standard".validate answers, and         *)
(* AnswersPromise whether the answer for a value comes as a promise.       *)
(***************************************************************************)
EXTENDS Integers, Sequences, FiniteSets, TLC

(***************************************************************************)
(* Bounds of the model.                                                    *)
(***************************************************************************)
\* number of calls of the wrapped callable that may be in flight together
NCalls == 2
\* the builders constructed in a run
MaxBuilders == 4

(***************************************************************************)
(* JavaScript values.                                                      *)
(***************************************************************************)
Null == [k |-> "null"]
Undef == [k |-> "undefined"]
Str(s) == [k |-> "str", s |-> s]
Num(n) == [k |-> "num", n |-> n]
List(items) == [k |-> "list", items |-> items]
\* a function of no arguments, by the value it returns
Fn(returns) == [k |-> "fn", returns |-> returns]
\* a plain object used as error payload: type is a character sequence,
\* << >> when the object has no type field
Obj(type, message, statusCode) ==
  [k |-> "obj", type |-> type, message |-> message, statusCode |-> statusCode]
\* new Error(message)
ErrorVal(message) == [k |-> "error", message |-> message]
\* a promise that settles ("fulfil" or "reject") with v
PromiseOf(state, v) == [k |-> "promise", state |-> state, v |-> v]
\* the object of error helpers, one per key of the error map
HelpersOf(keys) == [k |-> "helpers", keys |-> keys]

IsNullish(v) == v.k \in {"null", "undefined"}
IsArray(v) == v.k = "list"
IsPromise(v) == v.k = "promise"
IsError(v) == v.k \in {"error", "zerr"}
IsZagoraError(v) == v.k = "zerr"

\* Array.prototype.join over strings
RECURSIVE Join(_, _)
Join(strs, sep) ==
  IF Len(strs) = 0 THEN ""
  ELSE IF Len(strs) = 1 THEN strs[1]
  ELSE strs[1] \o sep \o Join(Tail(strs), sep)

\* String(v)
RECURSIVE StringOf(_)
StringOf(v) ==
  CASE v.k = "str" -> v.s
    [] v.k = "num" -> ToString(v.n)
    [] v.k = "null" -> "null"
    [] v.k = "undefined" -> "undefined"
    [] v.k = "list" -> Join([i \in 1..Len(v.items) |->
                              IF IsNullish(v.items[i]) THEN "" ELSE StringOf(v.items[i])], ",")
    [] v.k = "error" -> "Error: " \o v.message
    [] v.k = "zerr" -> "ZagoraError: " \o v.message
    [] v.k = "promise" -> "[object Promise]"
    [] OTHER -> "[object Object]"

(***************************************************************************)
(* ZagoraError.                                                            *)
(***************************************************************************)
\* the constructor: an absent reason option is "", absent issues << >>,
\* an absent cause Undef
ZagoraError(message, issues, cause, reason) ==
  [k |-> "zerr", message |-> message, issues |-> issues, cause |-> cause,
   reason |-> IF reason = "" THEN "Unknown or internal error" ELSE reason]

fromIssues(issues) ==
  ZagoraError(Join([i \in 1..Len(issues) |-> issues[i].message], ", "),
              issues, Undef, "Failure caused by validation")

\* the message of what was caught kept as the message of the error
fromCaughtError_message(caught, reason) ==
  ZagoraError(IF IsError(caught) THEN caught.message ELSE StringOf(caught),
              << >>, caught, reason)

fromCaughtError(caught, reason) ==
  LET message == IF IsError(caught) THEN caught.message ELSE StringOf(caught)
  IN ZagoraError(IF reason = "" THEN message ELSE reason, << >>, caught, reason)

(***************************************************************************)
(* The dual result.                                                        *)
(***************************************************************************)
\* the list built of data and error alone
createDualResult_pair(data, error, isDefined) ==
  [tuple |-> <<data, error>>,
   data |-> data, error |-> error, isDefined |-> isDefined]

createDualResult(data, error, isDefined) ==
  [tuple |-> <<data, error, isDefined>>,
   data |-> data, error |-> error, isDefined |-> isDefined]

(***************************************************************************)
(* Strings that the code takes apart (error-map keys, discriminants) are   *)
(* sequences of one-character strings.                                     *)
(***************************************************************************)
LowerLetters == <<"a","b","c","d","e","f","g","h","i","j","k","l","m",
                  "n","o","p","q","r","s","t","u","v","w","x","y","z">>
UpperLetters == <<"A","B","C","D","E","F","G","H","I","J","K","L","M",
                  "N","O","P","Q","R","S","T","U","V","W","X","Y","Z">>

\* one character of String.prototype.toUpperCase
UpperChar(c) ==
  IF \E i \in 1..Len(LowerLetters) : LowerLetters[i] = c
  THEN UpperLetters[CHOOSE i \in 1..Len(LowerLetters) : LowerLetters[i] = c]
  ELSE c

toUpperCase(chars) == [i \in 1..Len(chars) |-> UpperChar(chars[i])]

\* str.split("_"): the words between underscores
RECURSIVE SplitUnderscore(_, _, _)
SplitUnderscore(chars, word, words) ==
  IF Len(chars) = 0 THEN Append(words, word)
  ELSE IF Head(chars) = "_"
       THEN SplitUnderscore(Tail(chars), << >>, Append(words, word))
       ELSE SplitUnderscore(Tail(chars), Append(word, Head(chars)), words)

RECURSIVE Concat(_)
Concat(words) ==
  IF Len(words) = 0 THEN << >> ELSE Head(words) \o Concat(Tail(words))

\* word.charAt(0).toUpperCase() + word.slice(1)
Capitalize(word) ==
  IF Len(word) = 0 THEN << >> ELSE <<UpperChar(word[1])>> \o Tail(word)

toPascalCase(chars) ==
  LET words == SplitUnderscore(chars, << >>, << >>)
  IN Concat([i \in 1..Len(words) |-> Capitalize(words[i])])

\* the spellings with the upper-case one tried first
typeVariants_upperFirst(key) ==
  <<toUpperCase(key) \o <<"_","E","R","R","O","R">>,
    key,
    toPascalCase(key) \o <<"E","r","r","o","r">>>>

\* the discriminant spellings an error helper injects, in the order tried
typeVariants(key) ==
  <<key,
    toPascalCase(key) \o <<"E","r","r","o","r">>,
    toUpperCase(key) \o <<"_","E","R","R","O","R">>>>

(***************************************************************************)
(* Schemas (the Standard Schema contract).  The schemas are those of the   *)
(* repository's tests and examples.                                        *)
(***************************************************************************)
\* Number(s) for the strings of the model; -1 stands for NaN
NumberOf(s) ==
  CASE s = "" -> 0
    [] s = "7" -> 7
    [] s = "42" -> 42
    [] OTHER -> -1

\* the discriminants of the tests' error schemas
NetworkType == <<"N","E","T","W","O","R","K","_","E","R","R","O","R">>
AsyncNetworkType ==
  <<"A","S","Y","N","C","_","N","E","T","W","O","R","K","_","E","R","R","O","R">>
ValidationType ==
  <<"V","A","L","I","D","A","T","I","O","N","_","E","R","R","O","R">>

Issue(message) == [message |-> message]
Accept(value) == [issues |-> << >>, value |-> value]
Reject(message) == [issues |-> <<Issue(message)>>, value |-> Undef]

\* z.object({type: z.literal(t), message: z.string(), statusCode: ...}):
\* statusCode is z.number().int().min(400).max(599) in networkError and
\* z.number() refined to be >= 400 in asyncNetwork
ValidateErrorObject(t, maxStatus, v) ==
  IF v.k # "obj" THEN Reject("Invalid input: expected object")
  ELSE IF v.type # t THEN Reject("Invalid input: expected literal type")
  ELSE IF v.statusCode < 400 THEN Reject("Status code must be >= 400")
  ELSE IF maxStatus > 0 /\ v.statusCode > maxStatus
       THEN Reject("Too big: expected number to be <=599")
       ELSE Accept(v)

\* what schema["~standard"].validate(v) answers, directly or once its
\* promise has settled
Validate(schema, v) ==
  CASE schema = "string" ->
         IF v.k = "str" THEN Accept(v) ELSE Reject("Invalid input: expected string")
    [] schema = "asyncString" ->
         IF v.k # "str" THEN Reject("Invalid input: expected string")
         ELSE IF v.s = "" THEN Reject("String cannot be empty")
         ELSE Accept(v)
    [] schema = "number" ->
         IF v.k = "num" THEN Accept(v) ELSE Reject("Invalid input: expected number")
    [] schema = "numeric" ->
         \* z.string().transform(Number).pipe(z.number().int().gte(0))
         IF v.k # "str" THEN Reject("Invalid input: expected string")
         ELSE IF NumberOf(v.s) < 0 THEN Reject("Invalid input: expected number, received NaN")
         ELSE Accept(Num(NumberOf(v.s)))
    [] schema = "coordinates" ->
         \* z.tuple([z.number(), z.number()])
         IF v.k # "list" THEN Reject("Invalid input: expected tuple")
         ELSE IF Len(v.items) # 2 THEN Reject("Invalid input: expected 2 items")
         ELSE IF \E i \in 1..2 : v.items[i].k # "num"
              THEN Reject("Invalid input: expected number")
              ELSE Accept(v)
    [] schema = "speedRetry" ->
         \* z.tuple([z.enum(["slow", "normal", "fast"]), z.number().default(123)]);
         \* zod leaves a trailing slot that the list does not reach absent
         IF v.k # "list" THEN Reject("Invalid input: expected tuple")
         ELSE IF Len(v.items) > 2 THEN Reject("Too big: expected array to have <=2 items")
         ELSE IF Len(v.items) = 0 THEN Reject("Invalid option: expected one of slow|normal|fast")
         ELSE IF v.items[1] \notin {Str("slow"), Str("normal"), Str("fast")}
              THEN Reject("Invalid option: expected one of slow|normal|fast")
         ELSE IF Len(v.items) = 1 THEN Accept(v)
         ELSE IF v.items[2].k = "undefined" THEN Accept(List(<<v.items[1], Num(123)>>))
         ELSE IF v.items[2].k # "num" THEN Reject("Invalid input: expected number")
         ELSE Accept(v)
    [] schema = "stringArray" ->
         \* z.array(z.string())
         IF v.k # "list" THEN Reject("Invalid input: expected array")
         ELSE IF \E i \in 1..Len(v.items) : v.items[i].k # "str"
              THEN Reject("Invalid input: expected string")
              ELSE Accept(v)
    [] schema = "asyncStringArray" ->
         \* z.array(z.string()).refine(async (items) => true)
         IF v.k # "list" THEN Reject("Invalid input: expected array")
         ELSE IF \E i \in 1..Len(v.items) : v.items[i].k # "str"
              THEN Reject("Invalid input: expected string")
              ELSE Accept(v)
    [] schema = "nullable" ->
         \* z.string().nullable()
         IF v.k \in {"str", "null"} THEN Accept(v)
         ELSE Reject("Invalid input: expected string")
    [] schema = "toNull" ->
         \* z.any().transform(() => null)
         Accept(Null)
    [] schema = "networkError" -> ValidateErrorObject(NetworkType, 599, v)
    [] schema = "asyncNetworkError" -> ValidateErrorObject(AsyncNetworkType, 0, v)
    [] schema = "asyncRateLimitError" ->
         \* z.object({type: z.string(), message: z.string(),
         \*           statusCode: z.number()})
         \*   .refine(async (err) => err.statusCode === 429, "Not a rate limit")
         IF v.k # "obj" THEN Reject("Invalid input: expected object")
         ELSE IF v.type = << >> THEN Reject("Invalid input: expected string")
         ELSE IF v.statusCode # 429 THEN Reject("Not a rate limit")
         ELSE Accept(v)
    [] schema = "rateLimitError" ->
         \* type: z.literal("RateLimitError")
         ValidateErrorObject(<<"R","a","t","e","L","i","m","i","t","E","r","r","o","r">>,
                             0, v)
    [] schema = "snakeRateLimitError" ->
         \* type: z.literal("RATE_LIMIT_ERROR")
         ValidateErrorObject(<<"R","A","T","E","_","L","I","M","I","T","_",
                               "E","R","R","O","R">>, 0, v)
    [] schema = "verbatimNetworkError" ->
         \* type: z.literal("network")
         ValidateErrorObject(<<"n","e","t","w","o","r","k">>, 0, v)
    [] schema = "looseError" ->
         \* z.object({type: z.string(), message: z.string(), statusCode: z.number()})
         IF v.k # "obj" THEN Reject("Invalid input: expected object")
         ELSE IF v.type = << >> THEN Reject("Invalid input: expected string")
         ELSE Accept(v)
    [] schema = "validationError" ->
         \* z.object({type: z.literal("VALIDATION_ERROR"), message: z.string(),
         \*           field: z.string(), value: z.unknown()}); the objects of
         \* the model have no field
         IF v.k # "obj" THEN Reject("Invalid input: expected object")
         ELSE IF v.type # ValidationType THEN Reject("Invalid input: expected literal type")
         ELSE Reject("Invalid input: expected string")
    [] OTHER -> Reject("not a schema")

\* schema._def.items of a zod tuple schema, each with its declared default
\* (Undef when it declares none); << >> for a schema that is no zod tuple
TupleItems(schema) ==
  CASE schema = "speedRetry" -> <<[default |-> Undef], [default |-> Num(123)]>>
    [] schema = "coordinates" -> <<[default |-> Undef], [default |-> Undef]>>
    [] schema = "retryPolicy" ->
         \* z.tuple([z.string(), z.number(), z.number().default(() => 3)])
         <<[default |-> Undef], [default |-> Undef], [default |-> Fn(Num(3))]>>
    [] schema = "allDefaults" ->
         \* z.tuple([z.string().default("normal"), z.number().default(123)])
         <<[default |-> Str("normal")], [default |-> Num(123)]>>
    [] OTHER -> << >>

\* typeof defaultValue === "function" ? defaultValue() : defaultValue
defaultValueOf(item) ==
  IF item.default.k = "fn" THEN item.default.returns ELSE item.default

\* the length of the list handleTupleDefaults returns: up to the last
\* missing slot that got a default
filledLength(items, rawArgs) ==
  IF \E i \in (Len(rawArgs) + 1)..Len(items) : items[i].default # Undef
  THEN CHOOSE i \in (Len(rawArgs) + 1)..Len(items) :
         /\ items[i].default # Undef
         /\ \A j \in (i + 1)..Len(items) : items[j].default = Undef
  ELSE Len(rawArgs)

\* a handleTupleDefaults that fills every missing slot, with null where
\* the element schema declares no default
handleTupleDefaults_padded(schema, rawArgs) ==
  IF TupleItems(schema) = << >> THEN rawArgs
  ELSE [i \in 1..(IF Len(rawArgs) > Len(TupleItems(schema)) THEN Len(rawArgs)
                  ELSE Len(TupleItems(schema))) |->
          IF i <= Len(rawArgs) THEN rawArgs[i]
          ELSE IF TupleItems(schema)[i].default = Undef THEN Null
          ELSE defaultValueOf(TupleItems(schema)[i])]

\* a copy of rawArgs with the declared defaults in the missing trailing
\* slots; a missing slot without default is Undef
handleTupleDefaults(schema, rawArgs) ==
  IF TupleItems(schema) = << >> THEN rawArgs
  ELSE [i \in 1..filledLength(TupleItems(schema), rawArgs) |->
          IF i <= Len(rawArgs) THEN rawArgs[i]
          ELSE defaultValueOf(TupleItems(schema)[i])]

\* the schemas refined by an async function
IsAsyncSchema(schema) ==
  schema \in {"asyncString", "asyncStringArray", "asyncNetworkError",
              "asyncRateLimitError"}

\* the schema under the refinement parses v: zod runs a refinement on parsed
\* values only, and answers at once with the issues of a value that is not
PassesBase(schema, v) ==
  CASE schema = "asyncString" -> v.k = "str"
    [] schema = "asyncStringArray" ->
         v.k = "list" /\ \A i \in 1..Len(v.items) : v.items[i].k = "str"
    [] schema = "asyncNetworkError" -> v.k = "obj" /\ v.type = AsyncNetworkType
    [] schema = "asyncRateLimitError" -> v.k = "obj" /\ v.type # << >>
    [] OTHER -> FALSE

\* schema["~standard"].validate(v) instanceof Promise
AnswersPromise(schema, v) == IsAsyncSchema(schema) /\ PassesBase(schema, v)

\* result.issues is set
HasIssues(res) == Len(res.issues) > 0

(***************************************************************************)
(* Outcomes of a piece of code that may throw.                             *)
(***************************************************************************)
Return(v) == [threw |-> FALSE, v |-> v]
Throw(v) == [threw |-> TRUE, v |-> v]

(***************************************************************************)
(* Input validation.  args is a JavaScript value: the tuple branch hands   *)
(* over the schema's value as it is.                                       *)
(***************************************************************************)
InputResult(args, error) == [args |-> args, error |-> error]

\* rawArgs[0]
FirstOf(rawArgs) == IF Len(rawArgs) > 0 THEN rawArgs[1] ELSE Undef

\* the end of validateInputSync and validateInput: what is made of the
\* result of the single-argument validation
singleArgumentResult(result) ==
  IF HasIssues(result)
  THEN InputResult(List(<< >>), fromIssues(result.issues))
  ELSE InputResult(IF IsArray(result.value) THEN result.value
                   ELSE List(<<result.value>>), Undef)

\* a validateInputSync that reports the promise of an asynchronous schema
\* as a failed validation
validateInputSyncWith_asyncAsFailure(inputSchema, rawArgs, tuple) ==
  IF \/ Len(rawArgs) > 1 /\ AnswersPromise(inputSchema, List(rawArgs))
     \/ AnswersPromise(inputSchema, FirstOf(rawArgs))
  THEN Return(InputResult(List(<< >>),
         ZagoraError("Cannot use async input schema validation in handlerSync",
                     << >>, Undef, "")))
  ELSE IF Len(rawArgs) > 1 /\ ~HasIssues(tuple)
       THEN Return(InputResult(tuple.value, Undef))
       ELSE Return(singleArgumentResult(Validate(inputSchema, FirstOf(rawArgs))))

\* validateInputSync after the schema has answered tuple for the whole list
validateInputSyncWith(inputSchema, rawArgs, tuple) ==
  IF Len(rawArgs) > 1 /\ AnswersPromise(inputSchema, List(rawArgs))
  THEN Throw(ZagoraError("Cannot use async input schema validation in handlerSync",
                         << >>, Undef, ""))
  ELSE IF Len(rawArgs) > 1 /\ ~HasIssues(tuple)
       THEN Return(InputResult(tuple.value, Undef))
       ELSE IF AnswersPromise(inputSchema, FirstOf(rawArgs))
            THEN Throw(ZagoraError(
                   "Cannot use async input schema validation in handlerSync",
                   << >>, Undef, ""))
            ELSE Return(singleArgumentResult(Validate(inputSchema, FirstOf(rawArgs))))

validateInputSync(inputSchema, rawArgs) ==
  validateInputSyncWith(inputSchema, rawArgs, Validate(inputSchema, List(rawArgs)))

\* validateInput after the schema has answered tuple for the whole list
validateInputWith(inputSchema, rawArgs, tuple) ==
  IF Len(rawArgs) > 1 /\ ~HasIssues(tuple)
  THEN InputResult(tuple.value, Undef)
  ELSE singleArgumentResult(Validate(inputSchema, FirstOf(rawArgs)))

validateInput(inputSchema, rawArgs) ==
  validateInputWith(inputSchema, rawArgs, Validate(inputSchema, List(rawArgs)))

(***************************************************************************)
(* Output and error validation.                                            *)
(***************************************************************************)
\* validateOutput once the schema has answered result: the pair
\* [value, null] or [null, ZagoraError]
\* validateOutput that does not look at result.issues
validateOutputWith_lenient(isAsync, result, isSync) ==
  IF isAsync /\ isSync
  THEN Throw(ZagoraError("Cannot use async output schema validation in handlerSync",
                         << >>, Undef, ""))
  ELSE Return(<<result.value, Null>>)

validateOutputWith(isAsync, result, isSync) ==
  IF isAsync /\ isSync
  THEN Throw(ZagoraError("Cannot use async output schema validation in handlerSync",
                         << >>, Undef, ""))
  ELSE IF HasIssues(result)
       THEN Return(<<Null, fromIssues(result.issues)>>)
       ELSE Return(<<result.value, Null>>)

validateOutput(outputSchema, output, isSync) ==
  validateOutputWith(AnswersPromise(outputSchema, output), Validate(outputSchema, output),
                     isSync)

\* an error map is a sequence of [key, schema], in Object.entries order
ErrorEntry(key, schema) == [key |-> key, schema |-> schema]

\* validateError is a loop over the entries; what one entry decides once its
\* schema has answered result: "typed", "untyped" (the promise of an
\* asynchronous schema is returned), "throw" or "next"
errorEntryVerdict(isAsync, result, isSync) ==
  IF isAsync
  THEN IF isSync THEN "throw"
       ELSE IF ~HasIssues(result) THEN "typed" ELSE "untyped"
  ELSE IF ~HasIssues(result) THEN "typed" ELSE "next"

\* the index of the entry where the loop of validateError ends, or
\* Len(entries) + 1 when it runs through
RECURSIVE errorLoopEnd(_, _, _, _)
errorLoopEnd(entries, i, maybeErr, isSync) ==
  IF i > Len(entries) THEN i
  ELSE IF errorEntryVerdict(AnswersPromise(entries[i].schema, maybeErr),
                            Validate(entries[i].schema, maybeErr), isSync) = "next"
       THEN errorLoopEnd(entries, i + 1, maybeErr, isSync)
       ELSE i

\* a validateError that takes the promise of an asynchronous schema for its
\* answer in handlerSync too
validateErrorAt_promiseAsAnswer(entries, i, maybeErr, isSync) ==
  IF i > Len(entries) THEN Return([error |-> maybeErr, isTyped |-> FALSE])
  ELSE IF HasIssues(Validate(entries[i].schema, maybeErr))
       THEN Return([error |-> maybeErr, isTyped |-> FALSE])
       ELSE Return([error |-> Validate(entries[i].schema, maybeErr).value,
                    isTyped |-> TRUE])

\* validateError given the entry i where its loop ends
validateErrorAt(entries, i, maybeErr, isSync) ==
  IF i > Len(entries) THEN Return([error |-> maybeErr, isTyped |-> FALSE])
  ELSE IF AnswersPromise(entries[i].schema, maybeErr) /\ isSync
       THEN Throw(ZagoraError("Cannot use async error schema validation in handlerSync",
                              << >>, Undef, ""))
       ELSE IF HasIssues(Validate(entries[i].schema, maybeErr))
            THEN Return([error |-> maybeErr, isTyped |-> FALSE])
            ELSE Return([error |-> Validate(entries[i].schema, maybeErr).value,
                         isTyped |-> TRUE])

validateError(errSchema, maybeErr, isSync) ==
  validateErrorAt(errSchema, errorLoopEnd(errSchema, 1, maybeErr, isSync),
                  maybeErr, isSync)

(***************************************************************************)
(* Error helpers.                                                          *)
(***************************************************************************)
\* { ...error, type: typeValue }
WithType(error, typeValue) == [error EXCEPT !.type = typeValue]

\* the first of the spellings from i on with which the schema does not
\* reject the payload at once, or Len(variants) + 1
RECURSIVE firstAcceptedVariant(_, _, _, _)
firstAcceptedVariant(errorSchema, error, variants, i) ==
  IF i > Len(variants) THEN i
  ELSE IF /\ ~AnswersPromise(errorSchema, WithType(error, variants[i]))
          /\ HasIssues(Validate(errorSchema, WithType(error, variants[i])))
       THEN firstAcceptedVariant(errorSchema, error, variants, i + 1)
       ELSE i

IssueMessages(issues) == Join([j \in 1..Len(issues) |-> issues[j].message], ", ")

\* a helper that hands out the payload under its last spelling when the
\* schema has rejected every spelling
helperVariantsAt_lastSpelling(key, errorSchema, error, variants, i) ==
  IF i > Len(variants)
  THEN Return(List(<<Null, WithType(error, variants[Len(variants)])>>))
  ELSE IF AnswersPromise(errorSchema, WithType(error, variants[i]))
       THEN Throw(ZagoraError("Synchronous error helpers don't support async schemas",
                              << >>, Undef, ""))
       ELSE Return(List(<<Null,
                          Validate(errorSchema, WithType(error, variants[i])).value>>))

\* the loop of a helper over typeVariants, given the variant i where it ends
helperVariantsAt(key, errorSchema, error, variants, i) ==
  IF i > Len(variants)
  THEN Throw(ZagoraError(
         "Invalid error data for \"errors." \o Join(key, "") \o "\": "
           \o IssueMessages(
                Validate(errorSchema, WithType(error, variants[Len(variants)])).issues),
         << >>, Undef, ""))
  ELSE IF AnswersPromise(errorSchema, WithType(error, variants[i]))
       THEN Throw(ZagoraError("Synchronous error helpers don't support async schemas",
                              << >>, Undef, ""))
       ELSE Return(List(<<Null,
                          Validate(errorSchema, WithType(error, variants[i])).value>>))

\* a helper once the schema has answered result for the payload as given
errorHelperWith(key, errorSchema, error, result) ==
  IF AnswersPromise(errorSchema, error)
  THEN Throw(ZagoraError("Synchronous error helpers don't support async schemas",
                         << >>, Undef, ""))
  ELSE IF ~HasIssues(result)
       THEN Return(List(<<Null, result.value>>))
       ELSE helperVariantsAt(key, errorSchema, error, typeVariants(key),
              firstAcceptedVariant(errorSchema, error, typeVariants(key), 1))

\* helpers[key](error) of createErrorHelpers
errorHelper(key, errorSchema, error) ==
  errorHelperWith(key, errorSchema, error, Validate(errorSchema, error))

\* the values a helper hands to its schema's validate, in order: the
\* payload, then the payload under each spelling up to the one where the
\* loop ends
helperAttempts(key, errorSchema, error) ==
  IF AnswersPromise(errorSchema, error) \/ ~HasIssues(Validate(errorSchema, error))
  THEN <<error>>
  ELSE <<error>> \o
       [i \in 1..(IF firstAcceptedVariant(errorSchema, error, typeVariants(key), 1)
                      > Len(typeVariants(key))
                   THEN Len(typeVariants(key))
                   ELSE firstAcceptedVariant(errorSchema, error, typeVariants(key), 1))
          |-> WithType(error, typeVariants(key)[i])]

createErrorHelpers(errSchema) ==
  HelpersOf([i \in 1..Len(errSchema) |-> errSchema[i].key])

(***************************************************************************)
(* The handler definition held by a builder, and user functions.           *)
(***************************************************************************)
\* this._error: null, or a record of schemas by key
NoErrors == [declared |-> FALSE, entries |-> << >>]
ErrorsOf(entries) == [declared |-> TRUE, entries |-> entries]

NetworkKey == <<"n","e","t","w","o","r","k">>
AsyncNetworkKey == <<"a","s","y","n","c","N","e","t","w","o","r","k">>
ValidationKey == <<"v","a","l","i","d","a","t","i","o","n">>
IgnoredKey == <<"i","g","n","o","r","e","d">>
RateLimitKey == <<"r","a","t","e","L","i","m","i","t">>

Definition(input, output, error, errorsFirst) ==
  [input |-> input, output |-> output, error |-> error, errorsFirst |-> errorsFirst]

\* the arguments the user function is called with
FinalArgs(def, args) ==
  IF def.error.declared
  THEN IF def.errorsFirst
       THEN <<createErrorHelpers(def.error.entries)>> \o args
       ELSE args \o <<createErrorHelpers(def.error.entries)>>
  ELSE args

\* what a user function written for its definition sees in its arguments
HasHelpers(finalArgs) == \E i \in 1..Len(finalArgs) : finalArgs[i].k = "helpers"
Positional(finalArgs) == SelectSeq(finalArgs, LAMBDA a : a.k # "helpers")
FirstInput(finalArgs) == FirstOf(Positional(finalArgs))

\* the index of key in the error map, 0 when it is not declared
KeyIndex(errSchema, key) ==
  IF \E i \in 1..Len(errSchema) : errSchema[i].key = key
  THEN CHOOSE i \in 1..Len(errSchema) : errSchema[i].key = key
  ELSE 0

\* errors[key](payload) at its place i in the error map, as the user
\* function sees it
CallHelperAt(finalArgs, errSchema, i, payload) ==
  IF ~HasHelpers(finalArgs) THEN Throw(ErrorVal("undefined is not an object"))
  ELSE IF i = 0 THEN Throw(ErrorVal("errors[key] is not a function"))
  ELSE errorHelper(errSchema[i].key, errSchema[i].schema, payload)

CallHelper(finalArgs, errSchema, key, payload) ==
  CallHelperAt(finalArgs, errSchema, KeyIndex(errSchema, key), payload)

\* the body of a user function, by kind: what it returns or throws
ImplBody(kind, finalArgs, errSchema) ==
  CASE kind = "echo" -> Return(FirstInput(finalArgs))
    [] kind = "returnNull" -> Return(Null)
    [] kind = "returnCoordinates" -> Return(List(<<Num(1), Num(2)>>))
    [] kind = "throwError" -> Throw(ErrorVal("Some basic error"))
    [] kind = "throwString" -> Throw(Str("boom"))
    [] kind = "throwTyped" -> Throw(Obj(NetworkType, "Thrown network error", 503))
    [] kind = "pairOk" -> Return(List(<<FirstInput(finalArgs), Null>>))
    [] kind = "pairErrString" -> Return(List(<<Null, Str("Some error")>>))
    [] kind = "pairErrWithData" ->
         Return(List(<<FirstInput(finalArgs), Str("Some error")>>))
    [] kind = "pairErrZagora" ->
         Return(List(<<Null, ZagoraError("Custom zagora error", << >>, Undef, "")>>))
    [] kind = "pairErrTyped" ->
         Return(List(<<Null, Obj(NetworkType, "Sync network error", 503)>>))
    [] kind = "pairErrAsyncTyped" ->
         Return(List(<<Null, Obj(AsyncNetworkType, "Tuple async error", 503)>>))
    [] kind = "helperNetwork" ->
         CallHelper(finalArgs, errSchema, NetworkKey, Obj(<< >>, "Network failure", 500))
    [] kind = "helperAsyncNetwork" ->
         CallHelper(finalArgs, errSchema, AsyncNetworkKey,
                    Obj(<< >>, "Async network failure", 500))
    [] kind = "helperAsyncTyped" ->
         CallHelper(finalArgs, errSchema, AsyncNetworkKey,
                    Obj(AsyncNetworkType, "Async network failure", 500))
    [] kind = "helperInvalid" ->
         CallHelper(finalArgs, errSchema, NetworkKey, Obj(<< >>, "invalid", 0))
    [] OTHER -> Return(Undef)

ImplKinds ==
  {"echo", "returnNull", "returnCoordinates", "throwError", "throwString",
   "throwTyped", "pairOk", "pairErrString", "pairErrWithData", "pairErrZagora",
   "pairErrTyped", "pairErrAsyncTyped", "helperNetwork", "helperAsyncNetwork",
   "helperAsyncTyped", "helperInvalid"}

\* a user function: its body, and whether it is an async function
Impl(kind, async) == [kind |-> kind, async |-> async]

\* what calling an async function gives: a promise that fulfils with what
\* the body returns or rejects with what it throws
AsyncOf(body) == Return(PromiseOf(IF body.threw THEN "reject" ELSE "fulfil", body.v))

\* impl(...finalArgs)
Invoke(impl, finalArgs, errSchema) ==
  IF impl.async THEN AsyncOf(ImplBody(impl.kind, finalArgs, errSchema))
  ELSE ImplBody(impl.kind, finalArgs, errSchema)

(***************************************************************************)
(* The wrapper built by createHandlerSync.  A call runs to its end in one  *)
(* step.  Its outcome tells whether a fault was raised to the caller, the  *)
(* Result Value (or the fault), the argument lists the user function was   *)
(* invoked with and the values handed to the output schema.                *)
(***************************************************************************)
CallOutcome(raised, value, implCalls, outputChecks) ==
  [raised |-> raised, value |-> value,
   implCalls |-> implCalls, outputChecks |-> outputChecks,
   errorChecks |-> << >>]

\* the outcome of the returned-pair branch: validateError was handed
\* maybeErr when an error map is declared
Classifying(def, maybeErr, outcome) ==
  IF def.error.declared THEN [outcome EXCEPT !.errorChecks = <<maybeErr>>]
  ELSE outcome

\* Array.isArray(rawResult) && rawResult.length === 2
IsPair(rawResult) == IsArray(rawResult) /\ Len(rawResult.items) = 2

\* the returned value is a pair whose error slot is set (maybeErr != null)
HasErrorSlot(rawResult) ==
  IF IsPair(rawResult) THEN ~IsNullish(rawResult.items[2]) ELSE FALSE

\* the catch block of both wrappers
caughtResult(err) ==
  createDualResult(Null, fromCaughtError(err, "Handler threw unknown error"), FALSE)

\* what a piece of the try block leaves as the call's result
resultOrCaught(outcome) ==
  IF outcome.threw THEN caughtResult(outcome.v) ELSE outcome.v

\* a returned pair without error map: the error as ZagoraError
untypedReturned(maybeErr) ==
  IF IsZagoraError(maybeErr) THEN maybeErr
  ELSE fromCaughtError(maybeErr, "Untyped error returned")

\* createHandlerSync: the result made of validateError's answer
classifiedSync(validated) ==
  IF validated.threw THEN Throw(validated.v)
  ELSE IF validated.v.isTyped
       THEN Return(createDualResult(Null, validated.v.error, TRUE))
       ELSE Return(createDualResult(Null, validated.v.error, TRUE))

\* createHandlerSync: the result for a returned pair whose error slot is set
errorSlotSync(def, maybeErr) ==
  IF def.error.declared
  THEN classifiedSync(validateError(def.error.entries, maybeErr, TRUE))
  ELSE Return(createDualResult(Null, untypedReturned(maybeErr), FALSE))

\* the result made without looking at validateOutput's error
outputResult_unchecked(pair) == createDualResult(pair[1], Null, FALSE)

\* the result made from validateOutput's pair
outputResult(pair) ==
  IF pair[2] = Null THEN createDualResult(pair[1], Null, FALSE)
  ELSE createDualResult(Null, pair[2], FALSE)

\* createHandlerSync: output validation and its result
outputSync(validated) ==
  IF validated.threw THEN Throw(validated.v) ELSE Return(outputResult(validated.v))

\* the value handed to the output schema: the output slot of a pair, or the
\* returned value itself
OutputCandidate(rawResult) ==
  IF IsPair(rawResult) THEN rawResult.items[1] ELSE rawResult

\* the try block without the check for a returned promise
afterInvokeSync_unchecked(def, finalArgs, raw) ==
  IF raw.threw
  THEN CallOutcome(FALSE, caughtResult(raw.v), <<finalArgs>>, << >>)
  ELSE CallOutcome(FALSE,
         resultOrCaught(outputSync(
           validateOutput(def.output, OutputCandidate(raw.v), TRUE))),
         <<finalArgs>>, <<OutputCandidate(raw.v)>>)

\* createHandlerSync's try block once the user function has answered raw
afterInvokeSync(def, finalArgs, raw) ==
  IF raw.threw
  THEN CallOutcome(FALSE, caughtResult(raw.v), <<finalArgs>>, << >>)
  ELSE IF IsPromise(raw.v)
  THEN CallOutcome(FALSE,
         createDualResult(Null,
           \* the message, without the backquotes around .handlerSync
           ZagoraError("Using .handlerSync only accepts synchronous functions",
                       << >>, Undef, ""),
           FALSE),
         <<finalArgs>>, << >>)
  ELSE IF HasErrorSlot(raw.v)
  THEN Classifying(def, raw.v.items[2],
         CallOutcome(FALSE, resultOrCaught(errorSlotSync(def, raw.v.items[2])),
                     <<finalArgs>>, << >>))
  ELSE CallOutcome(FALSE,
         resultOrCaught(outputSync(
           validateOutput(def.output, OutputCandidate(raw.v), TRUE))),
         <<finalArgs>>, <<OutputCandidate(raw.v)>>)

\* the spread of inputResult.args into finalArgs fails for what is no list
SpreadFault == ErrorVal("inputResult.args is not iterable")

\* the try block of createHandlerSync's wrapper, the arguments spread
tryBlockSyncWith(def, impl, finalArgs) ==
  afterInvokeSync(def, finalArgs, Invoke(impl, finalArgs, def.error.entries))

tryBlockSync(def, impl, args) ==
  IF ~IsArray(args)
  THEN CallOutcome(FALSE, caughtResult(SpreadFault), << >>, << >>)
  ELSE tryBlockSyncWith(def, impl, FinalArgs(def, args.items))

\* the wrapper once validateInputSync has answered
wrapperSyncWith(def, impl, inputResult) ==
  IF inputResult.threw
  THEN CallOutcome(TRUE, inputResult.v, << >>, << >>)
  ELSE IF inputResult.v.error # Undef
  THEN CallOutcome(FALSE, createDualResult(Null, inputResult.v.error, FALSE),
                   << >>, << >>)
  ELSE tryBlockSync(def, impl, inputResult.v.args)

wrapperSync(def, impl, rawArgs) ==
  wrapperSyncWith(def, impl, validateInputSync(def.input, rawArgs))

(***************************************************************************)
(* State: one builder definition bound to one user function through one    *)
(* entry point, and the calls made to the resulting callable.              *)
(***************************************************************************)
VARIABLES
  revision, \* the source file the builder is taken from
  created,  \* the config zagora(config) was called with
  builders, \* the builder objects, in order of construction
  bound,    \* what handler / handlerSync gave, once one was called
  def,     \* the definition captured by createHandlerSync / createHandlerAsync
  impl,    \* the user function
  mode,    \* "sync" for handlerSync, "async" for handler
  active,  \* the calls that may be made
  calls,   \* per call: where it stands and what it holds
  processed, \* processedInputValidation, the variable that the wrapper of
             \* zagora-v3.ts closes over
  applied  \* a function of the library applied on its own: its arguments
           \* and, once it has returned, its value

vars ==
  <<revision, created, builders, bound, def, impl, mode, active, calls,
    processed, applied>>

\* no function is applied on its own
NotApplied == [fn |-> "none", args |-> << >>, returned |-> FALSE, value |-> Undef]

NoResult == [tuple |-> << >>, data |-> Undef, error |-> Undef, isDefined |-> FALSE]

IdleCall ==
  [pc |-> "idle", rawArgs |-> << >>,
   inputResult |-> InputResult(Undef, Undef),
   promise |-> Undef,
   classified |-> [error |-> Undef, isTyped |-> FALSE],
   validated |-> <<Undef, Undef>>,
   result |-> NoResult, raised |-> FALSE, fault |-> Undef,
   implCalls |-> << >>, outputChecks |-> << >>, errorChecks |-> << >>]

\* a wrapper that answers its first finished call only
Finished_once(call, result) ==
  [call EXCEPT !.pc = "done",
               !.result = IF \E d \in 1..NCalls : calls[d].pc = "done"
                          THEN caughtResult(ErrorVal("already called"))
                          ELSE result]

\* the call has returned result to its caller (or resolved with it)
Finished(call, result) == [call EXCEPT !.pc = "done", !.result = result]

\* the user function has been invoked with finalArgs
Invoked(call, finalArgs) == [call EXCEPT !.implCalls = Append(@, finalArgs)]

\* a call of handlerSync's callable, from start to end
SyncDone(call, rawArgs, outcome) ==
  [call EXCEPT !.pc = "done", !.rawArgs = rawArgs,
               !.raised = outcome.raised,
               !.fault = IF outcome.raised THEN outcome.value ELSE Undef,
               !.result = IF outcome.raised THEN NoResult ELSE outcome.value,
               !.implCalls = outcome.implCalls,
               !.outputChecks = outcome.outputChecks,
               !.errorChecks = outcome.errorChecks]

(***************************************************************************)
(* The wrapper built by createHandlerAsync, from one await to the next.    *)
(***************************************************************************)
\* the try block once the user function has answered raw
\* the returned value awaited whatever it is
afterInvokeAsync_awaitsAny(call, raw) ==
  IF raw.threw THEN Finished(call, caughtResult(raw.v))
  ELSE [call EXCEPT !.pc = "impl",
          !.promise = IF IsPromise(raw.v) THEN raw.v ELSE PromiseOf("fulfil", raw.v)]

afterInvokeAsync(call, raw) ==
  IF raw.threw THEN Finished(call, caughtResult(raw.v))
  ELSE IF ~IsPromise(raw.v)
  THEN Finished(call,
         createDualResult(Null,
           \* the message, without the backquotes around .handler
           ZagoraError("Using .handler only accepts async functions", << >>, Undef, ""),
           FALSE))
  ELSE [call EXCEPT !.pc = "impl", !.promise = raw.v]

tryBlockAsyncWith(call, d, f, finalArgs) ==
  afterInvokeAsync(Invoked(call, finalArgs), Invoke(f, finalArgs, d.error.entries))

\* after "await this.validateInput(...)"
afterInputAsync(call, d, f, inputResult) ==
  IF inputResult.error # Undef
  THEN Finished(call, createDualResult(Null, inputResult.error, FALSE))
  ELSE IF ~IsArray(inputResult.args)
  THEN Finished(call, caughtResult(SpreadFault))
  ELSE tryBlockAsyncWith(call, d, f, FinalArgs(d, inputResult.args.items))

\* a try block that validates the output slot of every returned value
afterImplAsync_outputAlways(call, d, rawResult) ==
  [call EXCEPT !.pc = "output",
     !.validated = validateOutput(d.output, OutputCandidate(rawResult), FALSE).v,
     !.outputChecks = Append(@, OutputCandidate(rawResult))]

\* after "rawResult = await rawResult" has fulfilled
afterImplAsync(call, d, rawResult) ==
  IF HasErrorSlot(rawResult)
  THEN IF d.error.declared
       THEN [call EXCEPT !.pc = "classify",
               !.classified = validateError(d.error.entries, rawResult.items[2], FALSE).v,
               !.errorChecks = Append(@, rawResult.items[2])]
       ELSE Finished(call,
              createDualResult(Null, untypedReturned(rawResult.items[2]), FALSE))
  ELSE [call EXCEPT !.pc = "output",
          !.validated = validateOutput(d.output, OutputCandidate(rawResult), FALSE).v,
          !.outputChecks = Append(@, OutputCandidate(rawResult))]

\* a wrapper that awaits the user function's promise again when it rejects
settledImpl_awaitsAgain(call, d, promise) ==
  IF promise.state = "reject"
  THEN call
  ELSE afterImplAsync(call, d, promise.v)

\* "rawResult = await rawResult": the catch block for a rejection,
\* otherwise the rest of the try block
settledImpl(call, d, promise) ==
  IF promise.state = "reject"
  THEN Finished(call, caughtResult(promise.v))
  ELSE afterImplAsync(call, d, promise.v)

\* the returned-pair branch after "await this.validateError(...)"
classifiedAsync(classified) ==
  IF classified.isTyped
  THEN createDualResult(Null, classified.error, TRUE)
  ELSE createDualResult(Null, classified.error, FALSE)

(***************************************************************************)
(* Builders.  zagora(config) constructs one; input, output and errors      *)
(* construct the next one from their receiver; handler and handlerSync     *)
(* bind a user function.  The repository holds the class in three          *)
(* revisions: "index" is src/src/index.ts, "part_002" the revision that    *)
(* keeps "~zagora" metadata, "orig" is src/src/orig.ts.                    *)
(***************************************************************************)
\* null in _input / _output
NoSchema == "none"
\* defaultAnySchema() of orig.ts
anySchema == "any"

\* the argument of zagora(config); zagora() gives no config
Config(given, errorsFirst) == [given |-> given, errorsFirst |-> errorsFirst]
NoConfig == Config(FALSE, FALSE)
Configs == {NoConfig, Config(TRUE, FALSE), Config(TRUE, TRUE)}

\* the "~zagora" field of a builder
Metadata(inputSchema, outputSchema, errorSchema, handlerFn) ==
  [set |-> TRUE, inputSchema |-> inputSchema, outputSchema |-> outputSchema,
   errorSchema |-> errorSchema, handlerFn |-> handlerFn]
NoMetadata ==
  [set |-> FALSE, inputSchema |-> NoSchema, outputSchema |-> NoSchema,
   errorSchema |-> NoErrors, handlerFn |-> FALSE]

Builder(input, output, error, config, zagora) ==
  [input |-> input, output |-> output, error |-> error, config |-> config,
   zagora |-> zagora]

\* new Zagora(config).  orig.ts spreads the config and then sets errorsFirst
\* to false and both schemas to the any-schema
Zagora(rev, config) ==
  IF rev = "orig"
  THEN Builder(anySchema, anySchema, NoErrors, Config(TRUE, FALSE), NoMetadata)
  ELSE Builder(NoSchema, NoSchema, NoErrors, config, NoMetadata)

\* the builders once a chaining step on builders[r] has constructed next:
\* index.ts writes nothing but next, orig.ts writes the metadata on next,
\* the part_002 revision writes it on the receiver
chained(rev, bs, r, next, metadata) ==
  IF rev = "index" THEN Append(bs, next)
  ELSE IF rev = "orig" THEN Append(bs, [next EXCEPT !.zagora = metadata])
  ELSE Append([bs EXCEPT ![r].zagora = metadata], next)

\* builders[r].input(schema); the builder returned is the last one
input(rev, bs, r, schema) ==
  chained(rev, bs, r,
          [Zagora(rev, bs[r].config) EXCEPT !.input = schema,
                                            !.output = bs[r].output,
                                            !.error = bs[r].error],
          Metadata(schema, bs[r].output, bs[r].error, FALSE))

\* an output step that starts from a builder without error map
output_dropsErrors(rev, bs, r, schema) ==
  chained(rev, bs, r,
          [Zagora(rev, bs[r].config) EXCEPT !.input = bs[r].input,
                                            !.output = schema],
          Metadata(bs[r].input, schema, bs[r].error, FALSE))

\* builders[r].output(schema)
output(rev, bs, r, schema) ==
  chained(rev, bs, r,
          [Zagora(rev, bs[r].config) EXCEPT !.input = bs[r].input,
                                            !.output = schema,
                                            !.error = bs[r].error],
          Metadata(bs[r].input, schema, bs[r].error, FALSE))

\* builders[r].errors(schema)
errors(rev, bs, r, schema) ==
  chained(rev, bs, r,
          [Zagora(rev, bs[r].config) EXCEPT !.input = bs[r].input,
                                            !.output = bs[r].output,
                                            !.error = schema],
          Metadata(bs[r].input, bs[r].output, schema, FALSE))

\* the fault of a guard: an Error, in orig.ts a ZagoraError
guardFault(rev, message) ==
  IF rev = "orig" THEN ZagoraError(message, << >>, Undef, "") ELSE ErrorVal(message)

\* a bind whose only guard is the one on the input schema
createHandler_inputGuardOnly(rev, this) ==
  IF this.input = NoSchema
  THEN Throw(guardFault(rev, ".input(...) must be called first"))
  ELSE Return(Definition(this.input, this.output, this.error,
                         this.config.errorsFirst))

\* createHandlerSync / createHandlerAsync up to the wrapper: the guards,
\* then what the wrapper closes over
createHandler(rev, this) ==
  IF this.input = NoSchema
  THEN Throw(guardFault(rev, ".input(...) must be called first"))
  ELSE IF this.output = NoSchema
  THEN Throw(guardFault(rev, ".output(...) must be called first"))
  ELSE Return(Definition(this.input, this.output, this.error,
                         this.config.errorsFirst))

\* handler / handlerSync after the wrapper was made: index.ts returns it,
\* the other revisions first write the metadata on the receiver
afterBind(rev, bs, r) ==
  IF rev = "index" THEN bs
  ELSE [bs EXCEPT ![r].zagora =
          Metadata(bs[r].input, bs[r].output, bs[r].error, TRUE)]

NotBound == [status |-> "none", from |-> 0, fault |-> Undef]
BoundFrom(r) == [status |-> "callable", from |-> r, fault |-> Undef]
BindFault(r, fault) == [status |-> "fault", from |-> r, fault |-> fault]

InputSchemas ==
  {"string", "asyncString", "numeric", "coordinates", "stringArray", "speedRetry"}
OutputSchemas == {"string", "asyncString", "numeric", "nullable", "coordinates"}
ErrorMaps ==
  {NoErrors,
   ErrorsOf(<<ErrorEntry(NetworkKey, "networkError")>>),
   ErrorsOf(<<ErrorEntry(AsyncNetworkKey, "asyncNetworkError"),
              ErrorEntry(NetworkKey, "networkError")>>),
   ErrorsOf(<<ErrorEntry(ValidationKey, "validationError"),
              ErrorEntry(NetworkKey, "networkError")>>),
   ErrorsOf(<<ErrorEntry(RateLimitKey, "asyncRateLimitError"),
              ErrorEntry(NetworkKey, "networkError")>>),
   ErrorsOf(<<ErrorEntry(RateLimitKey, "asyncRateLimitError"),
              ErrorEntry(AsyncNetworkKey, "asyncNetworkError")>>),
   ErrorsOf(<<ErrorEntry(IgnoredKey, "toNull")>>)}

\* errorsFirst only shows when an error map is declared
Definitions ==
  {d \in {Definition(i, o, e, f) : i \in InputSchemas, o \in OutputSchemas,
                                   e \in ErrorMaps, f \in BOOLEAN} :
     d.error.declared \/ ~d.errorsFirst}

Impls == {Impl(kind, async) : kind \in ImplKinds, async \in BOOLEAN}

\* the argument lists callers pass
ArgLists ==
  {<< >>, <<Str("hello")>>, <<Str("7")>>, <<Str("")>>, <<Num(1)>>,
   <<Num(1), Num(2)>>, <<Str("hello"), Str("x")>>,
   <<List(<<Str("a"), Str("b")>>)>>,
   <<Str("fast")>>, <<Str("fast"), Num(123)>>}

\* the config and the builder a definition of src/src/index.ts is bound from
ConfigOf(d) == IF d.errorsFirst THEN Config(TRUE, TRUE) ELSE NoConfig
BuilderOf(d) == Builder(d.input, d.output, d.error, ConfigOf(d), NoMetadata)

Init ==
  /\ def \in Definitions
  /\ impl \in Impls
  /\ mode \in {"sync", "async"}
  /\ revision = "index"
  /\ created = ConfigOf(def)
  /\ builders = <<BuilderOf(def)>>
  /\ bound = BoundFrom(1)
  /\ active = {1}
  /\ calls = [c \in 1..NCalls |-> IdleCall]
  /\ processed = Undef
  /\ applied = NotApplied

\* inputResult read from one place shared by all calls
inputResultOf_shared(c) == calls[1].inputResult

\* the constant inputResult of the activation of the wrapper for call c
inputResultOf(c) == calls[c].inputResult

\* handlerSync's callable is called: the wrapper of createHandlerSync runs
CallSync(c, rawArgs) ==
  /\ mode = "sync"
  /\ calls[c].pc = "idle"
  /\ calls' = [calls EXCEPT ![c] =
                 SyncDone(calls[c], rawArgs, wrapperSync(def, impl, rawArgs))]
  /\ UNCHANGED <<revision, created, builders, bound, def, impl, mode, active,
               processed, applied>>

\* handler's callable is called: the wrapper of createHandlerAsync runs up
\* to "await this.validateInput(...)"
CallAsync(c, rawArgs) ==
  /\ mode = "async"
  /\ calls[c].pc = "idle"
  /\ calls' = [calls EXCEPT ![c] =
       [@ EXCEPT !.pc = "input", !.rawArgs = rawArgs,
                 !.inputResult = validateInput(def.input, rawArgs)]]
  /\ UNCHANGED <<revision, created, builders, bound, def, impl, mode, active,
               processed, applied>>

\* validateInput's promise has settled: the wrapper goes on up to
\* "await rawResult" or returns
ResumeInput(c) ==
  /\ calls[c].pc = "input"
  /\ calls' = [calls EXCEPT ![c] =
                 afterInputAsync(calls[c], def, impl, inputResultOf(c))]
  /\ UNCHANGED <<revision, created, builders, bound, def, impl, mode, active,
               processed, applied>>

\* the user function's promise has settled: the catch block for a
\* rejection; otherwise the wrapper goes on up to its next await or returns
SettleImpl(c) ==
  /\ calls[c].pc = "impl"
  /\ calls' = [calls EXCEPT ![c] = settledImpl(calls[c], def, calls[c].promise)]
  /\ UNCHANGED <<revision, created, builders, bound, def, impl, mode, active,
               processed, applied>>

\* "await this.validateError(...)" has settled
ResumeClassify(c) ==
  /\ calls[c].pc = "classify"
  /\ calls' = [calls EXCEPT ![c] =
                 Finished(calls[c], classifiedAsync(calls[c].classified))]
  /\ UNCHANGED <<revision, created, builders, bound, def, impl, mode, active,
               processed, applied>>

\* "await this.validateOutput(...)" has settled
ResumeOutput(c) ==
  /\ calls[c].pc = "output"
  /\ calls' = [calls EXCEPT ![c] =
                 Finished(calls[c], outputResult(calls[c].validated))]
  /\ UNCHANGED <<revision, created, builders, bound, def, impl, mode, active,
               processed, applied>>

Next ==
  \/ \E c \in active, rawArgs \in ArgLists : CallSync(c, rawArgs)
  \/ \E c \in active, rawArgs \in ArgLists : CallAsync(c, rawArgs)
  \/ \E c \in active : ResumeInput(c)
  \/ \E c \in active : SettleImpl(c)
  \/ \E c \in active : ResumeClassify(c)
  \/ \E c \in active : ResumeOutput(c)

Spec == Init /\ [][Next]_vars

(***************************************************************************)
(* Concurrent calls: the same callable is called NCalls times before any   *)
(* of the calls has finished, and the calls' continuations run in any      *)
(* order.  The definitions and user functions are those with a suspension  *)
(* point at each await of createHandlerAsync's wrapper.                    *)
(***************************************************************************)
ConcDefinitions ==
  {Definition(i, "asyncString", e, FALSE) :
     i \in {"asyncString", "numeric"},
     e \in {NoErrors,
            ErrorsOf(<<ErrorEntry(AsyncNetworkKey, "asyncNetworkError"),
                       ErrorEntry(NetworkKey, "networkError")>>)}}

ConcImpls ==
  {Impl(kind, async) : kind \in {"echo", "throwError", "pairErrAsyncTyped"},
                       async \in BOOLEAN}

InitConc ==
  /\ def \in ConcDefinitions
  /\ impl \in ConcImpls
  /\ mode \in {"sync", "async"}
  /\ revision = "index"
  /\ created = ConfigOf(def)
  /\ builders = <<BuilderOf(def)>>
  /\ bound = BoundFrom(1)
  /\ active = 1..NCalls
  /\ calls = [c \in 1..NCalls |-> IdleCall]
  /\ processed = Undef
  /\ applied = NotApplied

SpecConc == InitConc /\ [][Next]_vars

\* Every promise the wrapper awaits settles, and the continuation that
\* waits for it is run: the event loop runs each queued continuation.
Settling ==
  \A c \in 1..NCalls :
    /\ WF_vars(ResumeInput(c))
    /\ WF_vars(SettleImpl(c))
    /\ WF_vars(ResumeClassify(c))
    /\ WF_vars(ResumeOutput(c))

\* concurrent calls whose awaited promises all settle
SpecLive == InitConc /\ [][Next]_vars /\ Settling

(***************************************************************************)
(* Building: from zagora(config), chaining steps on any builder made so    *)
(* far and one call of handler or handlerSync on any of them.  Chaining    *)
(* goes on after the callable was bound.                                   *)
(***************************************************************************)
BuildInputs == {"string", "numeric"}
BuildOutputs == {"string", "nullable"}
BuildErrors ==
  {ErrorsOf(<<ErrorEntry(NetworkKey, "networkError")>>),
   ErrorsOf(<<ErrorEntry(ValidationKey, "validationError"),
              ErrorEntry(NetworkKey, "networkError")>>)}
BuildImpls == {Impl("echo", FALSE), Impl("helperNetwork", TRUE)}

\* before handler / handlerSync there is no wrapper and nothing captured
Unbound == Definition(NoSchema, NoSchema, NoErrors, FALSE)

InitBuild(rev) ==
  /\ revision = rev
  /\ created \in Configs
  /\ builders = <<Zagora(rev, created)>>
  /\ bound = NotBound
  /\ def = Unbound
  /\ impl \in BuildImpls
  /\ mode = "none"
  /\ active = {}
  /\ calls = [c \in 1..NCalls |-> IdleCall]
  /\ processed = Undef
  /\ applied = NotApplied

InputStep(r, schema) ==
  /\ Len(builders) < MaxBuilders
  /\ builders' = input(revision, builders, r, schema)
  /\ UNCHANGED <<revision, created, bound, def, impl, mode, active, calls,
               processed, applied>>

OutputStep(r, schema) ==
  /\ Len(builders) < MaxBuilders
  /\ builders' = output(revision, builders, r, schema)
  /\ UNCHANGED <<revision, created, bound, def, impl, mode, active, calls,
               processed, applied>>

ErrorsStep(r, schema) ==
  /\ Len(builders) < MaxBuilders
  /\ builders' = errors(revision, builders, r, schema)
  /\ UNCHANGED <<revision, created, bound, def, impl, mode, active, calls,
               processed, applied>>

\* builders[r].handlerSync(impl) or builders[r].handler(impl): a fault of
\* the guards, or the callable
Bind(r, entry, outcome) ==
  /\ bound.status = "none"
  /\ IF outcome.threw
     THEN /\ bound' = BindFault(r, outcome.v)
          /\ UNCHANGED <<builders, def, mode>>
     ELSE /\ bound' = BoundFrom(r)
          /\ builders' = afterBind(revision, builders, r)
          /\ def' = outcome.v
          /\ mode' = entry
  /\ UNCHANGED <<revision, created, impl, active, calls, processed, applied>>

HandlerSync(r) == Bind(r, "sync", createHandler(revision, builders[r]))

Handler(r) == Bind(r, "async", createHandler(revision, builders[r]))

NextBuild ==
  \/ \E r \in 1..Len(builders), schema \in BuildInputs : InputStep(r, schema)
  \/ \E r \in 1..Len(builders), schema \in BuildOutputs : OutputStep(r, schema)
  \/ \E r \in 1..Len(builders), schema \in BuildErrors : ErrorsStep(r, schema)
  \/ \E r \in 1..Len(builders) : HandlerSync(r)
  \/ \E r \in 1..Len(builders) : Handler(r)

\* the builder of src/src/index.ts
SpecBuild == InitBuild("index") /\ [][NextBuild]_vars
\* the builder of the revision that keeps "~zagora" metadata
SpecBuildMetadata == InitBuild("part_002") /\ [][NextBuild]_vars
\* the builder of src/src/orig.ts
SpecBuildOrig == InitBuild("orig") /\ [][NextBuild]_vars

(***************************************************************************)
(* Functions of the library applied on their own.  "index" takes them from *)
(* src/src/index.ts, "utils" from src/src/utils.ts.                        *)
(***************************************************************************)
\* ZagoraError.fromCaughtError of src/src/utils.ts: the reason is handed to
\* the constructor's options only
fromCaughtErrorUtils(caught, reason) ==
  ZagoraError(IF IsError(caught) THEN caught.message ELSE StringOf(caught),
              << >>, caught, reason)

\* an optional string parameter as the constructor's "reason ||" sees it
ReasonOf(reason) == IF reason.k = "str" THEN reason.s ELSE ""

Application(fn, args) == [fn |-> fn, args |-> args, returned |-> FALSE, value |-> Undef]

\* the value of fn(...args) in the revision
ValueOf(rev, fn, args) ==
  CASE fn = "fromCaughtError" ->
         IF rev = "utils" THEN fromCaughtErrorUtils(args[1], ReasonOf(args[2]))
         ELSE fromCaughtError(args[1], ReasonOf(args[2]))
    [] fn = "handleTupleDefaults" ->
         List(handleTupleDefaults(args[1].s, args[2].items))
    [] fn = "errorHelper" ->
         [k |-> "helped",
          outcome |-> errorHelper(args[1].items, args[2].s, args[3]),
          attempts |-> helperAttempts(args[1].items, args[2].s, args[3])]

\* the arguments as the caller holds them once fn has returned: neither
\* function writes to what it is given (handleTupleDefaults fills result,
\* its copy of rawArgs)
ArgsAfter(fn, args) == args

CaughtValues ==
  {ErrorVal("Original error message"), ErrorVal("Database connection failed"),
   ErrorVal(""), Str("Something went wrong"), Str(""), Num(404), Num(0),
   Obj(<< >>, "System failure", 1), Obj(NetworkType, "Network failure", 500),
   Null, Undef, List(<<Num(1), Num(2)>>),
   ZagoraError("Custom zagora error", << >>, Undef, ""),
   ZagoraError("Earlier", << >>, ErrorVal("inner"), "Earlier reason")}

Reasons ==
  {Undef, Str("Database error occurred"), Str("System error"),
   Str("Handler threw unknown error"), Str("")}

Applications ==
  {Application("fromCaughtError", <<caught, reason>>) :
     caught \in CaughtValues, reason \in Reasons}

\* handleTupleDefaults(schema, rawArgs), for schemas that are zod tuples and
\* schemas that are not; index.ts has no handleTupleDefaults
TupleSchemas == {"string", "stringArray", "coordinates", "speedRetry", "retryPolicy",
                 "allDefaults"}

TupleArgLists ==
  {<< >>, <<Str("fast")>>, <<Undef>>, <<Str("fast"), Num(7)>>,
   <<Str("fast"), Undef>>, <<Num(1), Num(2)>>,
   <<Str("fast"), Num(7), Num(9)>>, <<Str("fast"), Num(7), Num(9), Null>>}

TupleApplications ==
  {Application("handleTupleDefaults", <<Str(schema), List(rawArgs)>>) :
     schema \in TupleSchemas, rawArgs \in TupleArgLists}

\* errors[key](payload) of createErrorHelpers, for keys in camel case and
\* snake case, schemas whose literal type is one of the three spellings or
\* any string, and payloads with and without a type of their own
HelperKeys ==
  {NetworkKey, RateLimitKey, <<"r","a","t","e","_","l","i","m","i","t">>}

HelperSchemas ==
  {"networkError", "verbatimNetworkError", "rateLimitError", "snakeRateLimitError",
   "looseError", "asyncNetworkError"}

HelperPayloads ==
  {Obj(<< >>, "Network failure", 500), Obj(<< >>, "Network failure", 0),
   Obj(NetworkType, "Network failure", 503),
   Obj(<<"w","r","o","n","g">>, "Network failure", 500),
   Obj(AsyncNetworkType, "Network failure", 500)}

HelperApplications ==
  {Application("errorHelper", <<List(key), Str(schema), payload>>) :
     key \in HelperKeys, schema \in HelperSchemas, payload \in HelperPayloads}

InitApply(rev) ==
  /\ revision = rev
  /\ created = NoConfig
  /\ builders = << >>
  /\ bound = NotBound
  /\ def = Unbound
  /\ impl = Impl("echo", FALSE)
  /\ mode = "none"
  /\ active = {}
  /\ calls = [c \in 1..NCalls |-> IdleCall]
  /\ processed = Undef
  /\ applied \in Applications \cup (IF rev = "utils" THEN TupleApplications
                                    ELSE HelperApplications)

\* the function returns
Apply ==
  /\ ~applied.returned
  /\ applied.fn # "none"
  /\ applied' = [applied EXCEPT !.returned = TRUE,
                                !.args = ArgsAfter(applied.fn, applied.args),
                                !.value = ValueOf(revision, applied.fn, applied.args)]
  /\ UNCHANGED <<revision, created, builders, bound, def, impl, mode, active,
                 calls, processed>>

NextApply == Apply

SpecApply == InitApply("index") /\ [][NextApply]_vars
SpecApplyUtils == InitApply("utils") /\ [][NextApply]_vars

(***************************************************************************)
(* The handler of src/src/zagora-v3.ts.  Its wrapper closes over           *)
(* processedInputValidation, declared in handler() next to the captured    *)
(* schemas; the definitions here declare no options schema and no error    *)
(* map.                                                                    *)
(***************************************************************************)
\* what validateInput and generalValidator of src/src/utils.ts return
Validated(data, error, isDefined) == [data |-> data, error |-> error, isDefined |-> isDefined]

\* ZagoraError.fromIssues of src/src/utils.ts
fromIssuesUtils(issues, reason) ==
  ZagoraError(Join([i \in 1..Len(issues) |-> issues[i].message], ", "),
              issues, Undef,
              IF reason = "" THEN "Failure caused by validation" ELSE reason)

\* processResult of validateInput
processResult(res) ==
  IF ~HasIssues(res)
  THEN Validated(IF IsArray(res.value) THEN res.value ELSE List(<<res.value>>),
                 Null, FALSE)
  ELSE Validated(Null, fromIssuesUtils(res.issues, "Input validation failed..."), FALSE)

\* validateInput of src/src/utils.ts: one validation, of the argument list
\* with its defaults filled in
validateInputUtils(schema, rawArgs) ==
  processResult(Validate(schema, List(handleTupleDefaults(schema, rawArgs))))

\* generalValidator(outputSchema, data): isOutputValidation is left at its
\* default false
generalValidator(schema, value) ==
  IF HasIssues(Validate(schema, value))
  THEN Validated(Null,
                 fromIssuesUtils(Validate(schema, value).issues,
                                 "Options validation failed"),
                 FALSE)
  ELSE Validated(Validate(schema, value).value, Null, FALSE)

\* Boolean(v), for [...].filter(Boolean)
Truthy(v) == ~IsNullish(v) /\ v # Num(0) /\ v # Str("")

\* the arguments the wrapper calls the user function with
finalArgsV3(d, processedInput) ==
  SelectSeq(processedInput.items
              \o <<Null>>
              \o <<IF d.error.declared THEN createErrorHelpers(d.error.entries)
                   ELSE Null>>,
            Truthy)

\* the catch block of the try, and the catch handler of the promise chain
caughtV3(err, reason) == Validated(Null, fromCaughtErrorUtils(err, reason), FALSE)

\* forwardImpl: createResult(resp.data, resp.error, resp.isDefined)
FinishedV3(call, resp) ==
  Finished(call, createDualResult(resp.data, resp.error, resp.isDefined))

\* the then handler of the promise chain, and the end of the try block:
\* the output validation, awaited when the schema answers with a promise
outputV3(call, d, data) ==
  IF d.output = NoSchema THEN FinishedV3(call, Validated(data, Null, FALSE))
  ELSE IF AnswersPromise(d.output, data)
  THEN [call EXCEPT !.pc = "output", !.validated = generalValidator(d.output, data),
                    !.outputChecks = Append(@, data)]
  ELSE FinishedV3([call EXCEPT !.outputChecks = Append(@, data)],
                  generalValidator(d.output, data))

\* the promise chain on the user function's promise: the catch handler for
\* a rejection, the then handler otherwise
settledImplV3(call, d, promise) ==
  IF promise.state = "reject"
  THEN FinishedV3(call, caughtV3(promise.v, "An async handler threw unknown error"))
  ELSE outputV3(call, d, promise.v)

\* the try block once the user function has answered raw
afterInvokeV3(call, d, raw) ==
  IF raw.threw
  THEN FinishedV3(call, caughtV3(raw.v, "Synchronous handler threw unknown error"))
  ELSE IF IsPromise(raw.v) THEN [call EXCEPT !.pc = "impl", !.promise = raw.v]
  ELSE outputV3(call, d, raw.v)

\* the wrapper entered with processedInputValidation set
tryBlockV3(call, d, f, finalArgs) ==
  afterInvokeV3(Invoked(call, finalArgs), d, Invoke(f, finalArgs, d.error.entries))

\* the wrapper once validateInput has answered inputResult: the error, or
\* the wrapper again with processedInputValidation assigned
afterInputV3(call, d, f, inputResult) ==
  IF inputResult.error # Null THEN FinishedV3(call, inputResult)
  ELSE tryBlockV3(call, d, f, finalArgsV3(d, inputResult.data))

\* processedInputValidation after that
processedAfter(before, inputResult) ==
  IF inputResult.error # Null THEN before ELSE inputResult.data

\* a call of the wrapper, up to its return or its first promise
wrapperV3(call, d, f, rawArgs, before) ==
  IF before = Undef
  THEN IF AnswersPromise(d.input, List(handleTupleDefaults(d.input, rawArgs)))
       THEN [call EXCEPT !.pc = "input", !.rawArgs = rawArgs,
                         !.inputResult = validateInputUtils(d.input, rawArgs)]
       ELSE afterInputV3([call EXCEPT !.rawArgs = rawArgs], d, f,
                         validateInputUtils(d.input, rawArgs))
  ELSE tryBlockV3([call EXCEPT !.rawArgs = rawArgs], d, f, finalArgsV3(d, before))

\* isAsyncFunction(fn) of src/src/utils.ts: a function declared async is
\* told by its source text; any other function is called, with no
\* argument, to see whether it returns a promise.  probes are the argument
\* lists fn was called with on the way.
isAsyncFunction(fn) ==
  IF fn.async THEN [answer |-> TRUE, probes |-> << >>]
  ELSE [answer |-> /\ ~Invoke(fn, << >>, << >>).threw
                   /\ IsPromise(Invoke(fn, << >>, << >>).v),
        probes |-> << << >> >>]

\* handler(impl) of src/src/zagora-v3.ts: the wrapper, once isAsync is set
handlerV3(fn) ==
  [status |-> "callable", from |-> 1, fault |-> Undef,
   isAsync |-> isAsyncFunction(fn).answer, probes |-> isAsyncFunction(fn).probes]

NotBoundV3 ==
  [status |-> "none", from |-> 0, fault |-> Undef, isAsync |-> FALSE, probes |-> << >>]

V3Inputs == {"stringArray", "asyncStringArray", "speedRetry"}
V3Outputs == {NoSchema, "string", "asyncString"}
V3ErrorMaps == {NoErrors, ErrorsOf(<<ErrorEntry(NetworkKey, "networkError")>>)}
V3Definitions ==
  {Definition(i, o, e, FALSE) : i \in V3Inputs, o \in V3Outputs, e \in V3ErrorMaps}
V3Impls ==
  {Impl("echo", FALSE), Impl("echo", TRUE), Impl("throwError", FALSE),
   Impl("throwError", TRUE)}
V3ArgLists ==
  {<< >>, <<Str("hello")>>, <<Str("world")>>, <<Num(1)>>, <<Str("fast")>>,
   <<Str("slow"), Num(7)>>, <<Str("")>>, <<Str("slow"), Num(0)>>}

InitV3 ==
  /\ revision = "v3"
  /\ created = NoConfig
  /\ def \in V3Definitions
  /\ impl \in V3Impls
  /\ mode = "handler"
  /\ builders = <<BuilderOf(def)>>
  /\ bound = NotBoundV3
  /\ active = 1..NCalls
  /\ calls = [c \in 1..NCalls |-> IdleCall]
  /\ processed = Undef
  /\ applied = NotApplied

\* handler(impl) is called
BindV3 ==
  /\ bound.status = "none"
  /\ bound' = handlerV3(impl)
  /\ UNCHANGED <<revision, created, builders, def, impl, mode, active, calls,
                 processed, applied>>

\* the callable is called
CallV3(c, rawArgs) ==
  /\ bound.status = "callable"
  /\ calls[c].pc = "idle"
  /\ calls' = [calls EXCEPT ![c] = wrapperV3(calls[c], def, impl, rawArgs, processed)]
  /\ processed' =
       IF /\ processed = Undef
          /\ ~AnswersPromise(def.input, List(handleTupleDefaults(def.input, rawArgs)))
       THEN processedAfter(processed, validateInputUtils(def.input, rawArgs))
       ELSE processed
  /\ UNCHANGED <<revision, created, builders, bound, def, impl, mode, active, applied>>

\* the promise of validateInput has settled: the then handler assigns
\* processedInputValidation and calls the wrapper again
ResumeInputV3(c) ==
  /\ calls[c].pc = "input"
  /\ calls' = [calls EXCEPT ![c] = afterInputV3(calls[c], def, impl, calls[c].inputResult)]
  /\ processed' = processedAfter(processed, calls[c].inputResult)
  /\ UNCHANGED <<revision, created, builders, bound, def, impl, mode, active, applied>>

\* the promise of the user function has settled
SettleImplV3(c) ==
  /\ calls[c].pc = "impl"
  /\ calls' = [calls EXCEPT ![c] = settledImplV3(calls[c], def, calls[c].promise)]
  /\ UNCHANGED <<revision, created, builders, bound, def, impl, mode, active,
                 processed, applied>>

\* the promise of the output validation has settled
ResumeOutputV3(c) ==
  /\ calls[c].pc = "output"
  /\ calls' = [calls EXCEPT ![c] = FinishedV3(calls[c], calls[c].validated)]
  /\ UNCHANGED <<revision, created, builders, bound, def, impl, mode, active,
                 processed, applied>>

NextV3 ==
  \/ BindV3
  \/ \E c \in active, rawArgs \in V3ArgLists : CallV3(c, rawArgs)
  \/ \E c \in active : ResumeInputV3(c)
  \/ \E c \in active : SettleImplV3(c)
  \/ \E c \in active : ResumeOutputV3(c)

SpecV3 == InitV3 /\ [][NextV3]_vars

(***************************************************************************)
(* What the claims speak of.                                               *)
(***************************************************************************)
CallIds == 1..NCalls

\* call c has handed a Result Value to its caller
Returned(c) == calls[c].pc = "done" /\ ~calls[c].raised

\* call c has invoked the user function
WasInvoked(c) == Len(calls[c].implCalls) > 0

\* what the body of the user function did in call c: returned or threw
UserBody(c) == ImplBody(impl.kind, calls[c].implCalls[1], def.error.entries)

\* the input schema rejects the arguments of call c, as the list of them
\* and as the single value
InputRejected(c) ==
  /\ calls[c].pc # "idle"
  /\ Len(calls[c].rawArgs) > 1 => HasIssues(Validate(def.input, List(calls[c].rawArgs)))
  /\ HasIssues(Validate(def.input, FirstOf(calls[c].rawArgs)))

\* some declared error schema accepts v
AcceptedByDeclared(v) ==
  \E i \in 1..Len(def.error.entries) :
    ~HasIssues(Validate(def.error.entries[i].schema, v))

(***************************************************************************)
(* C1: a call of a callable built by handler or handlerSync never raises   *)
(* to its caller, whatever the arguments, the user function and the way    *)
(* the schemas validate.  The synchronous wrapper validates its input      *)
(* outside its try block and raises when the input schema is asynchronous. *)
(***************************************************************************)
C1_NeverRaises == \A c \in CallIds : ~calls[c].raised

(***************************************************************************)
(* C2: in every Result Value, isDefined is true only if error is non-null  *)
(* and a declared error schema accepted it: the user function returned a   *)
(* non-null error and one of the declared schemas accepts that error.  The *)
(* synchronous wrapper sets isDefined for a returned error that no         *)
(* declared schema accepts.                                                *)
(***************************************************************************)
C2_IsDefinedOnlyTyped ==
  \A c \in CallIds :
    (Returned(c) /\ calls[c].result.isDefined) =>
      /\ WasInvoked(c)
      /\ ~UserBody(c).threw
      /\ HasErrorSlot(UserBody(c).v)
      /\ AcceptedByDeclared(UserBody(c).v.items[2])

(***************************************************************************)
(* C3: when the input schema rejects the arguments of a call, the result   *)
(* has data null, a ZagoraError of reason "Failure caused by validation"   *)
(* with the schema's issues, isDefined false, and the user function is not *)
(* invoked during that call.  In handlerSync's callable over an            *)
(* asynchronous input schema the call raises instead (see C1).             *)
(***************************************************************************)
C3_InputRejection ==
  \A c \in CallIds :
    (calls[c].pc = "done" /\ InputRejected(c)) =>
      /\ ~WasInvoked(c)
      /\ ~calls[c].raised
      /\ calls[c].result.data = Null
      /\ IsZagoraError(calls[c].result.error)
      /\ calls[c].result.error.reason = "Failure caused by validation"
      /\ calls[c].result.error.issues =
           Validate(def.input, FirstOf(calls[c].rawArgs)).issues
      /\ calls[c].result.isDefined = FALSE

\* the input schema accepts the arguments of call c, as the list of them
\* or as the single value
InputAccepted(c) == calls[c].pc # "idle" /\ ~InputRejected(c)

\* the input schema's normalized arguments of call c
NormalizedArgs(c) ==
  IF /\ Len(calls[c].rawArgs) > 1
     /\ ~HasIssues(Validate(def.input, List(calls[c].rawArgs)))
  THEN Validate(def.input, List(calls[c].rawArgs)).value.items
  ELSE <<Validate(def.input, FirstOf(calls[c].rawArgs)).value>>

\* what the body of the user function does with those arguments
BodyOnNormalized(c) ==
  ImplBody(impl.kind, FinalArgs(def, NormalizedArgs(c)), def.error.entries)

\* the user function is of the kind its entry point asks for
RightMode == impl.async = (mode = "async")

(***************************************************************************)
(* C4: for an argument list the input schema accepts and a user function   *)
(* of the right execution mode that returns a value the output schema      *)
(* accepts, the result has error null, isDefined false, and data the       *)
(* output schema's normalized value of what the user function returned on  *)
(* the normalized arguments.  handlerSync's callable raises over an        *)
(* asynchronous input schema (see C1).                                     *)
(***************************************************************************)
C4_ValidCall ==
  \A c \in CallIds :
    ( /\ calls[c].pc = "done"
      /\ InputAccepted(c)
      /\ RightMode
      /\ ~BodyOnNormalized(c).threw
      /\ ~HasIssues(Validate(def.output, BodyOnNormalized(c).v)) ) =>
      /\ ~calls[c].raised
      /\ calls[c].result.error = Null
      /\ calls[c].result.isDefined = FALSE
      /\ calls[c].result.data = Validate(def.output, BodyOnNormalized(c).v).value

\* call c succeeded and the output schema normalized what the user function
\* returned to null
NullOutput(c) ==
  /\ calls[c].result.isDefined = FALSE
  /\ Len(calls[c].outputChecks) = 1
  /\ ~HasIssues(Validate(def.output, calls[c].outputChecks[1]))
  /\ IsNullish(Validate(def.output, calls[c].outputChecks[1]).value)
  /\ calls[c].result.data = Validate(def.output, calls[c].outputChecks[1]).value

\* the user function of call c returned an error that a declared error
\* schema accepted and normalized to null
NullTypedError(c) ==
  /\ calls[c].result.isDefined = TRUE
  /\ WasInvoked(c)
  /\ ~UserBody(c).threw
  /\ HasErrorSlot(UserBody(c).v)
  /\ \E i \in 1..Len(def.error.entries) :
       /\ ~HasIssues(Validate(def.error.entries[i].schema, UserBody(c).v.items[2]))
       /\ IsNullish(Validate(def.error.entries[i].schema, UserBody(c).v.items[2]).value)

(***************************************************************************)
(* C5: in every Result Value exactly one of data and error is non-null.    *)
(* As stated it fails for a success whose normalized output is null, where *)
(* both are null.  What holds: data and error are never both non-null, and *)
(* both are null only when the value a schema normalized is null: the      *)
(* output of a call that succeeded, or a returned error that a declared    *)
(* error schema accepted.                                                  *)
(***************************************************************************)
C5_Original ==
  \A c \in CallIds :
    Returned(c) =>
      IsNullish(calls[c].result.data) # IsNullish(calls[c].result.error)

C5_DataXorError ==
  \A c \in CallIds :
    Returned(c) =>
      /\ IsNullish(calls[c].result.data) \/ IsNullish(calls[c].result.error)
      /\ (IsNullish(calls[c].result.data) /\ IsNullish(calls[c].result.error)) =>
           (NullOutput(c) \/ NullTypedError(c))

\* a call that succeeded with a null output: neither data nor error
C5_Witness ==
  \E c \in CallIds :
    /\ Returned(c)
    /\ IsNullish(calls[c].result.data)
    /\ IsNullish(calls[c].result.error)
    /\ impl.kind = "returnNull"

(***************************************************************************)
(* C6: every Result Value is a list of exactly three elements whose        *)
(* positions 0, 1 and 2 equal its fields data, error and isDefined, on     *)
(* every return path.                                                      *)
(***************************************************************************)
C6_TupleAgrees ==
  \A c \in CallIds :
    Returned(c) =>
      /\ Len(calls[c].result.tuple) = 3
      /\ calls[c].result.tuple[1] = calls[c].result.data
      /\ calls[c].result.tuple[2] = calls[c].result.error
      /\ calls[c].result.tuple[3] = calls[c].result.isDefined

\* a typed error returned by the asynchronous callable: the one path with
\* isDefined true and error the payload
C6_Witness ==
  \E c \in CallIds :
    /\ Returned(c)
    /\ mode = "async"
    /\ calls[c].result.isDefined
    /\ calls[c].result.tuple[2] = Obj(NetworkType, "Sync network error", 503)

(***************************************************************************)
(* C8: when the user function returns what an error helper produced from a *)
(* payload without the discriminant, valid once the discriminant is        *)
(* injected, the result has data null, isDefined true and error the        *)
(* validated payload with the injected discriminant.  validateError stops  *)
(* at the first schema that answers asynchronously, so the payload of a    *)
(* helper declared after such a schema comes back untyped.                 *)
(***************************************************************************)
C8_HelperRoundTrip ==
  \A c \in CallIds :
    ( /\ Returned(c)
      /\ WasInvoked(c)
      /\ RightMode
      /\ impl.kind = "helperNetwork"
      /\ ~UserBody(c).threw ) =>
      /\ calls[c].result.data = Null
      /\ calls[c].result.isDefined = TRUE
      /\ calls[c].result.error = Obj(NetworkType, "Network failure", 500)

(***************************************************************************)
(* C9: when the user function returns a pair whose error slot e is         *)
(* non-null and accepted by no declared error schema, the result has data  *)
(* null and isDefined false, and error is e itself when no error map is    *)
(* declared, or a ZagoraError of reason "Untyped error returned" wrapping   *)
(* e when an error map is declared.  The synchronous wrapper sets          *)
(* isDefined for such an error (see C2).                                   *)
(***************************************************************************)
C9_UntypedReturned ==
  \A c \in CallIds :
    ( /\ Returned(c)
      /\ WasInvoked(c)
      /\ RightMode
      /\ ~UserBody(c).threw
      /\ HasErrorSlot(UserBody(c).v)
      /\ ~AcceptedByDeclared(UserBody(c).v.items[2]) ) =>
      /\ calls[c].result.data = Null
      /\ calls[c].result.isDefined = FALSE
      /\ IF def.error.declared
         THEN /\ IsZagoraError(calls[c].result.error)
              /\ calls[c].result.error.reason = "Untyped error returned"
              /\ calls[c].result.error.cause = UserBody(c).v.items[2]
         ELSE calls[c].result.error = UserBody(c).v.items[2]

(***************************************************************************)
(* C10: when the user function throws (synchronous callable) or throws or  *)
(* returns a promise that rejects (asynchronous callable), the result has  *)
(* data null, isDefined false and a ZagoraError whose reason and message   *)
(* are "Handler threw unknown error" and whose cause is the value thrown   *)
(* or rejected.  The wrappers classify no thrown value, so this is so for  *)
(* every thrown value.                                                     *)
(***************************************************************************)
C10_ThrownFault ==
  \A c \in CallIds :
    ( /\ Returned(c)
      /\ WasInvoked(c)
      /\ mode = "sync" => ~impl.async
      /\ UserBody(c).threw ) =>
      /\ calls[c].result.data = Null
      /\ calls[c].result.isDefined = FALSE
      /\ IsZagoraError(calls[c].result.error)
      /\ calls[c].result.error.message = "Handler threw unknown error"
      /\ calls[c].result.error.reason = "Handler threw unknown error"
      /\ calls[c].result.error.cause = UserBody(c).v

\* the promise of an async function rejected with an Error
C10_Witness ==
  \E c \in CallIds :
    /\ Returned(c)
    /\ mode = "async"
    /\ impl = Impl("throwError", TRUE)
    /\ calls[c].result.error.cause = ErrorVal("Some basic error")

\* one step of a call of handler's callable that runs alone
StepAlone(call) ==
  CASE call.pc = "input" -> afterInputAsync(call, def, impl, call.inputResult)
    [] call.pc = "impl" -> settledImpl(call, def, call.promise)
    [] call.pc = "classify" -> Finished(call, classifiedAsync(call.classified))
    [] call.pc = "output" -> Finished(call, outputResult(call.validated))
    [] OTHER -> call

RECURSIVE RunToEnd(_)
RunToEnd(call) == IF call.pc \in {"idle", "done"} THEN call ELSE RunToEnd(StepAlone(call))

\* the Result Value of a call of handler's callable with rawArgs, alone
ResultAlone(rawArgs) ==
  RunToEnd([IdleCall EXCEPT !.pc = "input", !.rawArgs = rawArgs,
                            !.inputResult = validateInput(def.input, rawArgs)]).result

(***************************************************************************)
(* C7: for concurrent calls of the same handler-built callable and every   *)
(* interleaving of their suspension points, each call resolves to the      *)
(* Result Value it would produce if it ran alone with its own arguments.   *)
(***************************************************************************)
C7_NoInterference ==
  \A c \in CallIds :
    (mode = "async" /\ calls[c].pc = "done") =>
      /\ ~calls[c].raised
      /\ calls[c].result = ResultAlone(calls[c].rawArgs)

\* two calls with distinct arguments, the second started and finished
\* while the first was suspended, resolved to different results
C7_Witness ==
  /\ mode = "async"
  /\ calls[1].pc = "impl"
  /\ calls[2].pc = "done"
  /\ calls[1].rawArgs = <<Str("hello")>>
  /\ calls[2].rawArgs = <<Str("")>>
  /\ calls[2].result.error # Null

\* the user function of call c threw v, or the promise it returned rejected
\* with v, behind the entry point that takes it
ThrewInCall(c) ==
  /\ Returned(c)
  /\ WasInvoked(c)
  /\ mode = "sync" => ~impl.async
  /\ UserBody(c).threw

(***************************************************************************)
(* C11: when an error map is declared and the user function throws (or its *)
(* promise rejects with) a value that a declared error schema accepts, the *)
(* result has data null, isDefined true and error the accepting schema's   *)
(* validated payload.  The catch blocks of both wrappers wrap every thrown *)
(* value without consulting the error map.                                 *)
(***************************************************************************)
C11_ThrownTyped ==
  \A c \in CallIds :
    ( /\ ThrewInCall(c)
      /\ def.error.declared
      /\ AcceptedByDeclared(UserBody(c).v) ) =>
      /\ calls[c].result.data = Null
      /\ calls[c].result.isDefined = TRUE
      /\ \E i \in 1..Len(def.error.entries) :
           /\ ~HasIssues(Validate(def.error.entries[i].schema, UserBody(c).v))
           /\ calls[c].result.error =
                Validate(def.error.entries[i].schema, UserBody(c).v).value

(***************************************************************************)
(* C12: when handler's callable invokes a user function that returns a     *)
(* value that is no promise, the call resolves, without rejecting, to a    *)
(* Result Value with data null, isDefined false and a ZagoraError whose    *)
(* message says "only accepts async functions"; the returned value is      *)
(* discarded and the output schema is not consulted.                       *)
(***************************************************************************)
C12_SyncFunctionBehindHandler ==
  \A c \in CallIds :
    ( /\ mode = "async"
      /\ WasInvoked(c)
      /\ ~impl.async
      /\ ~UserBody(c).threw ) =>
      /\ calls[c].pc = "done"
      /\ ~calls[c].raised
      /\ calls[c].result.data = Null
      /\ calls[c].result.isDefined = FALSE
      /\ IsZagoraError(calls[c].result.error)
      /\ calls[c].result.error.message = "Using .handler only accepts async functions"
      /\ calls[c].outputChecks = << >>

\* a synchronous function that returned the string it was given
C12_Witness ==
  \E c \in CallIds :
    /\ mode = "async"
    /\ impl = Impl("echo", FALSE)
    /\ calls[c].pc = "done"
    /\ WasInvoked(c)
    /\ def.output = "string"
    /\ UserBody(c) = Return(Str("hello"))

(***************************************************************************)
(* C13: when handlerSync's callable invokes a user function that returns a *)
(* promise, the call returns at once, without awaiting or following the    *)
(* promise, a Result Value with data null, isDefined false and a           *)
(* ZagoraError whose message says "only accepts synchronous functions";    *)
(* the output schema is not consulted.                                     *)
(***************************************************************************)
C13_AsyncFunctionBehindHandlerSync ==
  \A c \in CallIds :
    ( /\ mode = "sync"
      /\ WasInvoked(c)
      /\ impl.async ) =>
      /\ calls[c].pc = "done"
      /\ ~calls[c].raised
      /\ calls[c].promise = Undef
      /\ calls[c].result.data = Null
      /\ calls[c].result.isDefined = FALSE
      /\ IsZagoraError(calls[c].result.error)
      /\ calls[c].result.error.message =
           "Using .handlerSync only accepts synchronous functions"
      /\ calls[c].outputChecks = << >>

\* an async function whose promise rejects
C13_Witness ==
  \E c \in CallIds :
    /\ mode = "sync"
    /\ impl = Impl("throwError", TRUE)
    /\ calls[c].pc = "done"
    /\ WasInvoked(c)

\* the user function of call c, of the kind its entry point asks for,
\* returned a value that signals no error
ReturnedOutput(c) ==
  /\ calls[c].pc = "done"
  /\ WasInvoked(c)
  /\ RightMode
  /\ ~UserBody(c).threw
  /\ ~HasErrorSlot(UserBody(c).v)

(***************************************************************************)
(* C14: when the user function returns, without signalling an error, a     *)
(* value that the output schema rejects, the result has data null,         *)
(* isDefined false and a ZagoraError of reason "Failure caused by          *)
(* validation" with the output schema's issues.                            *)
(* As stated it fails for a returned list [x, null], of which the schema   *)
(* is given x alone, and in handlerSync's callable over an asynchronous    *)
(* output schema, whose result is "Handler threw unknown error".  It holds *)
(* of the candidate output (the returned value, or the first element of a  *)
(* returned list of two) wherever the wrapper gets the schema's answer.    *)
(***************************************************************************)
C14_Original ==
  \A c \in CallIds :
    (ReturnedOutput(c) /\ HasIssues(Validate(def.output, UserBody(c).v))) =>
      /\ ~calls[c].raised
      /\ calls[c].result.data = Null
      /\ calls[c].result.isDefined = FALSE
      /\ IsZagoraError(calls[c].result.error)
      /\ calls[c].result.error.reason = "Failure caused by validation"
      /\ calls[c].result.error.issues = Validate(def.output, UserBody(c).v).issues

C14_OutputRejection ==
  \A c \in CallIds :
    ( /\ ReturnedOutput(c)
      /\ HasIssues(Validate(def.output, OutputCandidate(UserBody(c).v)))
      /\ mode = "sync" =>
           ~AnswersPromise(def.output, OutputCandidate(UserBody(c).v)) ) =>
      /\ ~calls[c].raised
      /\ calls[c].result.data = Null
      /\ calls[c].result.isDefined = FALSE
      /\ IsZagoraError(calls[c].result.error)
      /\ calls[c].result.error.reason = "Failure caused by validation"
      /\ calls[c].result.error.issues =
           Validate(def.output, OutputCandidate(UserBody(c).v)).issues
      /\ calls[c].result.error.message =
           IssueMessages(Validate(def.output, OutputCandidate(UserBody(c).v)).issues)

\* an asynchronous output schema rejected the empty string the user
\* function returned
C14_Witness ==
  \E c \in CallIds :
    /\ ReturnedOutput(c)
    /\ mode = "async"
    /\ def.output = "asyncString"
    /\ UserBody(c) = Return(Str(""))
    /\ calls[c].result.error.reason = "Failure caused by validation"

\* the call of the same callable with argument list rawArgs, from its start
\* to its end
WholeCall(rawArgs) ==
  IF mode = "sync"
  THEN SyncDone(IdleCall, rawArgs, wrapperSync(def, impl, rawArgs))
  ELSE RunToEnd([IdleCall EXCEPT !.pc = "input", !.rawArgs = rawArgs,
                                 !.inputResult = validateInput(def.input, rawArgs)])

\* call c left out trailing arguments for which the input schema declares
\* defaults
OmitsDefaults(c) ==
  /\ calls[c].pc = "done"
  /\ handleTupleDefaults(def.input, calls[c].rawArgs) # calls[c].rawArgs

(***************************************************************************)
(* C15: over a tuple input schema whose trailing elements declare          *)
(* defaults, a call that omits those arguments resolves the same argument  *)
(* list, and yields the same result, as the call that passes the defaults. *)
(* validateInput and validateInputSync fill in no default: a call with one *)
(* argument validates that argument alone against the tuple schema.        *)
(***************************************************************************)
C15_DefaultBackfill ==
  \A c \in CallIds :
    OmitsDefaults(c) =>
      /\ calls[c].raised =
           WholeCall(handleTupleDefaults(def.input, calls[c].rawArgs)).raised
      /\ calls[c].implCalls =
           WholeCall(handleTupleDefaults(def.input, calls[c].rawArgs)).implCalls
      /\ calls[c].result =
           WholeCall(handleTupleDefaults(def.input, calls[c].rawArgs)).result

(***************************************************************************)
(* C16.  handler and handlerSync raise at bind time, returning no callable *)
(* and invoking no user function, when the builder has no input schema     *)
(* (message ".input(...) must be called first", also when it has neither   *)
(* schema) or has an input schema and no output schema (message            *)
(* ".output(...) must be called first"); with both schemas they return a   *)
(* callable and raise nothing.                                             *)
(***************************************************************************)
BindAttempted == bound.status # "none"

BindRaised(message) ==
  /\ bound.status = "fault"
  /\ IsError(bound.fault)
  /\ bound.fault.message = message
  /\ def = Unbound
  /\ \A c \in CallIds : calls[c].implCalls = << >>

C16_BindGuards ==
  BindAttempted =>
    IF builders[bound.from].input = NoSchema
    THEN BindRaised(".input(...) must be called first")
    ELSE IF builders[bound.from].output = NoSchema
    THEN BindRaised(".output(...) must be called first")
    ELSE /\ bound.status = "callable"
         /\ def = Definition(builders[bound.from].input,
                             builders[bound.from].output,
                             builders[bound.from].error,
                             created.errorsFirst)

C16_Witness ==
  /\ BindRaised(".output(...) must be called first")
  /\ builders[bound.from].input # NoSchema
  /\ builders[bound.from].error.declared

(***************************************************************************)
(* C17.  Each of input, output and errors returns a new builder, distinct  *)
(* from its receiver, and leaves every field of the receiver (of every     *)
(* builder there was) as it was; so what a callable captured, and with it  *)
(* how it behaves, is the same whatever chaining follows its binding.      *)
(***************************************************************************)
C17_ChainingLeavesReceiver ==
  [][Len(builders') > Len(builders) =>
       /\ Len(builders') = Len(builders) + 1
       /\ \A i \in 1..Len(builders) : builders'[i] = builders[i]
       /\ <<bound, def, impl, mode>>' = <<bound, def, impl, mode>>]_vars

(***************************************************************************)
(* C18.  With an error map declared the user function receives the error   *)
(* helpers as one more argument: after the resolved positional arguments   *)
(* when the builder was created without errorsFirst, before them when it   *)
(* was created with errorsFirst: true.  With no error map it receives the  *)
(* resolved positional arguments and nothing else.                         *)
(***************************************************************************)
ResolvedLists == {<< >>, <<Str("hello")>>, <<Num(1), Num(2)>>}

HelpersPlaced(finalArgs) ==
  IF def.error.declared
  THEN /\ Len(finalArgs) = Len(Positional(finalArgs)) + 1
       /\ finalArgs[IF created.errorsFirst THEN 1 ELSE Len(finalArgs)]
            = createErrorHelpers(def.error.entries)
  ELSE Positional(finalArgs) = finalArgs

C18_HelperPlacement ==
  bound.status = "callable" =>
    /\ \A args \in ResolvedLists :
         /\ HelpersPlaced(FinalArgs(def, args))
         /\ Positional(FinalArgs(def, args)) = args
    /\ \A c \in CallIds : \A i \in 1..Len(calls[c].implCalls) :
         HelpersPlaced(calls[c].implCalls[i])

(***************************************************************************)
(* C19.  In a callable built by handlerSync, when the output schema, an    *)
(* error schema asked to classify a returned error, or the schema behind   *)
(* an invoked error helper answers with a pending validation, the call     *)
(* raises nothing and returns a Result Value with data null, isDefined     *)
(* false and a ZagoraError of message "Handler threw unknown error".       *)
(***************************************************************************)
\* validateError asks the schemas in the order of the error map until one
\* does not reject: the one asked last answers with a promise
AsyncClassifier(entries, maybeErr) ==
  \E i \in 1..Len(entries) :
    /\ AnswersPromise(entries[i].schema, maybeErr)
    /\ \A j \in 1..(i - 1) :
         /\ ~AnswersPromise(entries[j].schema, maybeErr)
         /\ HasIssues(Validate(entries[j].schema, maybeErr))

\* the helper a user function of this kind invokes, and its payload
HelperKey(kind) ==
  IF kind \in {"helperAsyncNetwork", "helperAsyncTyped"} THEN AsyncNetworkKey
  ELSE NetworkKey

HelperPayload(kind) ==
  CASE kind = "helperNetwork" -> Obj(<< >>, "Network failure", 500)
    [] kind = "helperAsyncNetwork" -> Obj(<< >>, "Async network failure", 500)
    [] kind = "helperAsyncTyped" -> Obj(AsyncNetworkType, "Async network failure", 500)
    [] OTHER -> Obj(<< >>, "invalid", 0)

PendingOutput(c) ==
  ReturnedOutput(c) /\ AnswersPromise(def.output, OutputCandidate(UserBody(c).v))

PendingClassifier(c) ==
  /\ calls[c].pc = "done"
  /\ WasInvoked(c)
  /\ RightMode
  /\ ~UserBody(c).threw
  /\ HasErrorSlot(UserBody(c).v)
  /\ def.error.declared
  /\ AsyncClassifier(def.error.entries, UserBody(c).v.items[2])

PendingHelper(c) ==
  /\ calls[c].pc = "done"
  /\ WasInvoked(c)
  /\ RightMode
  /\ impl.kind \in {"helperNetwork", "helperAsyncNetwork", "helperAsyncTyped",
                    "helperInvalid"}
  /\ HasHelpers(calls[c].implCalls[1])
  /\ KeyIndex(def.error.entries, HelperKey(impl.kind)) > 0
  /\ AnswersPromise(
       def.error.entries[KeyIndex(def.error.entries, HelperKey(impl.kind))].schema,
       HelperPayload(impl.kind))

UnknownErrorResult(c) ==
  /\ ~calls[c].raised
  /\ calls[c].result.data = Null
  /\ calls[c].result.isDefined = FALSE
  /\ IsZagoraError(calls[c].result.error)
  /\ calls[c].result.error.message = "Handler threw unknown error"

C19_PendingValidationInSync ==
  \A c \in CallIds :
    (mode = "sync" /\ (PendingOutput(c) \/ PendingClassifier(c) \/ PendingHelper(c)))
      => UnknownErrorResult(c)

C19_Witness ==
  \E c \in CallIds :
    /\ mode = "sync"
    /\ PendingClassifier(c)
    /\ ~IsAsyncSchema(def.output)
    /\ UnknownErrorResult(c)

(***************************************************************************)
(* C20.  A call of a callable built by handlerSync over an input schema    *)
(* that answers with a pending validation raises a fault of message        *)
(* "Cannot use async input schema validation in handlerSync" to its        *)
(* caller and does not invoke the user function; binding the user          *)
(* function to that builder raised nothing.                                *)
(***************************************************************************)
SyncCallOverAsyncInput(c) ==
  /\ mode = "sync"
  /\ calls[c].pc = "done"
  /\ \/ Len(calls[c].rawArgs) > 1 /\ AnswersPromise(def.input, List(calls[c].rawArgs))
     \/ /\ Len(calls[c].rawArgs) > 1 =>
             HasIssues(Validate(def.input, List(calls[c].rawArgs)))
        /\ AnswersPromise(def.input, FirstOf(calls[c].rawArgs))

EndedWithEqualArguments(c, d) ==
  /\ c # d
  /\ calls[c].pc = "done"
  /\ calls[d].pc = "done"
  /\ calls[c].rawArgs = calls[d].rawArgs

FromCaughtErrorReturned ==
  applied.fn = "fromCaughtError" /\ applied.returned

C22_FromCaughtError ==
  FromCaughtErrorReturned =>
    /\ IsZagoraError(applied.value)
    /\ applied.value.cause = applied.args[1]
    /\ applied.value.reason =
         IF applied.args[2] = Undef THEN "Unknown or internal error"
         ELSE applied.args[2].s
    /\ applied.value.message =
         IF applied.args[2] # Undef THEN applied.args[2].s
         ELSE IF IsError(applied.args[1]) THEN applied.args[1].message
         ELSE StringOf(applied.args[1])

(***************************************************************************)
(* C23.  For a non-null error candidate returned by the user function and  *)
(* a declared error map, in both modes and with schemas validating         *)
(* synchronously or asynchronously, the candidate is classified as typed   *)
(* exactly when at least one declared schema accepts it, and the reported  *)
(* error is the normalized value of the first accepting schema in          *)
(* declaration order.                                                      *)
(***************************************************************************)
\* call c ended after the user function returned a pair with its error
\* slot set, under a declared error map
ReturnedCandidate(c) ==
  /\ calls[c].pc = "done"
  /\ WasInvoked(c)
  /\ RightMode
  /\ ~UserBody(c).threw
  /\ HasErrorSlot(UserBody(c).v)
  /\ def.error.declared

Candidate(c) == UserBody(c).v.items[2]

Accepting(entries, maybeErr) ==
  {i \in 1..Len(entries) : ~HasIssues(Validate(entries[i].schema, maybeErr))}

FirstAccepting(entries, maybeErr) ==
  CHOOSE i \in Accepting(entries, maybeErr) :
    \A j \in Accepting(entries, maybeErr) : i <= j

C23_FirstAcceptingSchemaWins ==
  \A c \in CallIds :
    ReturnedCandidate(c) =>
      /\ ~calls[c].raised
      /\ calls[c].result.isDefined
           = (Accepting(def.error.entries, Candidate(c)) # {})
      /\ Accepting(def.error.entries, Candidate(c)) # {} =>
           calls[c].result.error =
             Validate(def.error.entries[
                        FirstAccepting(def.error.entries, Candidate(c))].schema,
                      Candidate(c)).value

(***************************************************************************)
(* C24.  After the user function has returned, error classification and    *)
(* output validation exclude each other within a call: for a returned pair *)
(* with a non-null error slot the output schema is never consulted and the *)
(* pair's output slot never shows as data; when output validation runs, no *)
(* error schema is consulted; and once a declared error schema has         *)
(* accepted the candidate, no later step of the call changes the result.   *)
(***************************************************************************)
\* the user function of call c has returned (its promise has fulfilled)
HasReturned(c) ==
  /\ WasInvoked(c)
  /\ RightMode
  /\ ~UserBody(c).threw
  /\ calls[c].pc \in {"classify", "output", "done"}

PathsExclusive(c) ==
  /\ HasErrorSlot(UserBody(c).v) =>
       /\ calls[c].outputChecks = << >>
       /\ calls[c].pc = "done" => calls[c].result.data = Null
  /\ calls[c].outputChecks # << >> => calls[c].errorChecks = << >>
  /\ calls[c].errorChecks # << >> => calls[c].outputChecks = << >>

\* the steps left to a call whose candidate a declared schema has accepted
AcceptedIsFinal(c) ==
  /\ (calls[c].pc = "classify" /\ calls[c].classified.isTyped) =>
        \/ calls'[c] = calls[c]
        \/ calls'[c] =
             Finished(calls[c], createDualResult(Null, calls[c].classified.error, TRUE))
  /\ calls[c].pc = "done" => calls'[c] = calls[c]

C24_ClassificationOrOutput ==
  /\ [](\A c \in CallIds : HasReturned(c) => PathsExclusive(c))
  /\ [][\A c \in CallIds : AcceptedIsFinal(c)]_vars

\* a call of handler's callable whose returned pair carried an error that
\* a declared schema accepted
C24_Witness ==
  \E c \in CallIds :
    /\ mode = "async"
    /\ HasReturned(c)
    /\ calls[c].pc = "done"
    /\ HasErrorSlot(UserBody(c).v)
    /\ calls[c].errorChecks # << >>
    /\ calls[c].classified.isTyped
    /\ calls[c].result.isDefined

(***************************************************************************)
(* C25.  Argument resolution validates once per call, the assembled list   *)
(* of positional arguments against the input schema; when that validation  *)
(* reports issues the call fails with exactly those issues, and the first  *)
(* argument alone is not validated in a second attempt.                    *)
(***************************************************************************)
\* the input schema's answer for the assembled argument list of call c
AssembledValidation(c) ==
  Validate(def.input, List(handleTupleDefaults(def.input, calls[c].rawArgs)))

C25_SingleInputValidation ==
  \A c \in CallIds :
    (calls[c].pc = "done" /\ HasIssues(AssembledValidation(c))) =>
      /\ ~calls[c].raised
      /\ calls[c].implCalls = << >>
      /\ calls[c].result.data = Null
      /\ calls[c].result.error = fromIssues(AssembledValidation(c).issues)

(***************************************************************************)
(* C26.  In the handler of src/src/zagora-v3.ts every invocation of the    *)
(* callable validates its own raw arguments and invokes the user function  *)
(* with the arguments resolved from that same invocation; no invocation    *)
(* reads or writes state shared with an earlier or concurrent one, so a    *)
(* call's result never depends on the arguments of another call.           *)
(***************************************************************************)
\* one step of a call of the callable that runs alone
StepAloneV3(call) ==
  CASE call.pc = "input" -> afterInputV3(call, def, impl, call.inputResult)
    [] call.pc = "impl" -> settledImplV3(call, def, call.promise)
    [] call.pc = "output" -> FinishedV3(call, call.validated)
    [] OTHER -> call

RECURSIVE RunToEndV3(_)
RunToEndV3(call) ==
  IF call.pc \in {"idle", "done"} THEN call ELSE RunToEndV3(StepAloneV3(call))

\* the first call of a callable with rawArgs, alone
AloneV3(rawArgs) == RunToEndV3(wrapperV3(IdleCall, def, impl, rawArgs, Undef))

C26_IndependentInvocations ==
  \A c \in CallIds :
    calls[c].pc = "done" =>
      /\ calls[c].implCalls = AloneV3(calls[c].rawArgs).implCalls
      /\ calls[c].result = AloneV3(calls[c].rawArgs).result

(***************************************************************************)
(* C27.  When the user function returns a pair whose error slot e is       *)
(* non-null: with no error map declared, the result's error is e itself if *)
(* e is already a ZagoraError, and otherwise a ZagoraError with message    *)
(* "Untyped error returned" and cause e; with an error map declared that e *)
(* does not match, the result's error is the raw value e; in all these     *)
(* cases data is null and isDefined is false.                              *)
(***************************************************************************)
\* call c ended after the user function returned a pair with its error
\* slot set
ReturnedErrorSlot(c) ==
  /\ calls[c].pc = "done"
  /\ WasInvoked(c)
  /\ RightMode
  /\ ~UserBody(c).threw
  /\ HasErrorSlot(UserBody(c).v)

\* the error of the result when no error map is declared
WrappedUntyped(e, error) ==
  IF IsZagoraError(e) THEN error = e
  ELSE /\ IsZagoraError(error)
       /\ error.message = "Untyped error returned"
       /\ error.cause = e

C27_ReturnedErrorPair ==
  \A c \in CallIds :
    ReturnedErrorSlot(c) =>
      /\ ~def.error.declared =>
           /\ ~calls[c].raised
           /\ WrappedUntyped(UserBody(c).v.items[2], calls[c].result.error)
           /\ calls[c].result.data = Null
           /\ calls[c].result.isDefined = FALSE
      /\ (def.error.declared /\ ~AcceptedByDeclared(UserBody(c).v.items[2])) =>
           /\ ~calls[c].raised
           /\ calls[c].result.error = UserBody(c).v.items[2]
           /\ calls[c].result.data = Null
           /\ calls[c].result.isDefined = FALSE

(***************************************************************************)
(* C28.  When an error helper is invoked with a payload that its schema    *)
(* rejects as given and under every injected discriminant spelling, the    *)
(* helper produces no error object but raises a fault whose message starts *)
(* with Invalid error data for "errors.<key>" and carries the issues of    *)
(* the last spelling tried; the wrapper catches that fault and the call's  *)
(* result has data null, isDefined false and error a ZagoraError with      *)
(* message "Handler threw unknown error" whose cause is the helper's       *)
(* fault.  The user function is of the kind its entry point asks for.      *)
(***************************************************************************)
\* the schema rejects the payload, at once, as given and under every
\* spelling a helper of this key injects
RejectedEverySpelling(key, schema, payload) ==
  /\ ~AnswersPromise(schema, payload)
  /\ HasIssues(Validate(schema, payload))
  /\ \A i \in 1..Len(typeVariants(key)) :
       /\ ~AnswersPromise(schema, WithType(payload, typeVariants(key)[i]))
       /\ HasIssues(Validate(schema, WithType(payload, typeVariants(key)[i])))

\* the schema declared under the key of the helper the user function invokes
HelperSchema == def.error.entries[KeyIndex(def.error.entries, HelperKey(impl.kind))].schema

\* call c ended after its user function invoked a helper with such a payload
HelperRejected(c) ==
  /\ calls[c].pc = "done"
  /\ WasInvoked(c)
  /\ RightMode
  /\ impl.kind \in {"helperNetwork", "helperAsyncNetwork", "helperAsyncTyped",
                    "helperInvalid"}
  /\ HasHelpers(calls[c].implCalls[1])
  /\ KeyIndex(def.error.entries, HelperKey(impl.kind)) > 0
  /\ RejectedEverySpelling(HelperKey(impl.kind), HelperSchema,
                           HelperPayload(impl.kind))

\* the message of the helper's fault: the key and the issues of the last
\* spelling
InvalidErrorData(key, schema, payload) ==
  "Invalid error data for \"errors." \o Join(key, "") \o "\": "
    \o IssueMessages(Validate(schema, WithType(payload, typeVariants(key)[3])).issues)

TupleDefaultsReturned ==
  applied.fn = "handleTupleDefaults" /\ applied.returned

\* the default slot i of the tuple schema declares, called when it is a
\* function
DeclaredDefault(items, i) ==
  IF "returns" \in DOMAIN items[i].default
  THEN items[i].default.returns
  ELSE items[i].default

\* returned is what handleTupleDefaults owes the caller of rawArgs under a
\* tuple schema of these items (<< >> when the schema is no tuple)
DefaultsFilled(items, rawArgs, returned) ==
  /\ Len(returned) >= Len(rawArgs)
  /\ \A i \in 1..Len(rawArgs) : returned[i] = rawArgs[i]
  /\ \A i \in (Len(rawArgs) + 1)..Len(items) :
       IF items[i].default # Undef
       THEN i <= Len(returned) /\ returned[i] = DeclaredDefault(items, i)
       ELSE i <= Len(returned) => returned[i] = Undef
  /\ Len(returned) > Len(rawArgs) =>
       /\ Len(returned) <= Len(items)
       /\ items[Len(returned)].default # Undef
  /\ (items = << >> \/ Len(rawArgs) >= Len(items)) => returned = rawArgs

SingleAcceptedArgument(c) ==
  /\ TupleItems(def.input) = << >>
  /\ Len(calls[c].rawArgs) = 1
  /\ ~HasIssues(Validate(def.input, calls[c].rawArgs[1]))
  /\ WasInvoked(c)

C30_SingleParameter ==
  \A c \in CallIds :
    SingleAcceptedArgument(c) =>
      Positional(calls[c].implCalls[1])
        = <<Validate(def.input, calls[c].rawArgs[1]).value>>

(***************************************************************************)
(* C31.  Whatever value the user function returns to signal success,       *)
(* including a list of exactly two elements when the output schema accepts *)
(* such lists, that whole returned value is what is validated against the  *)
(* output schema and, when accepted, reported as data with error null.     *)
(***************************************************************************)
\* call c ended after the user function returned a value the output schema
\* accepts, answering at once in handlerSync's callable
ReturnedAccepted(c) ==
  /\ calls[c].pc = "done"
  /\ WasInvoked(c)
  /\ RightMode
  /\ ~UserBody(c).threw
  /\ ~HasIssues(Validate(def.output, UserBody(c).v))
  /\ mode = "sync" => ~AnswersPromise(def.output, UserBody(c).v)

C31_WholeValueValidated ==
  \A c \in CallIds :
    ReturnedAccepted(c) =>
      /\ calls[c].outputChecks = <<UserBody(c).v>>
      /\ calls[c].result.data = Validate(def.output, UserBody(c).v).value
      /\ calls[c].result.error = Null

(***************************************************************************)
(* C32.  Within one call of a wrapped callable the user function is        *)
(* invoked at most once and the output schema's validate operation is      *)
(* invoked at most once; after any failure of that call (input rejection,  *)
(* execution-mode violation, thrown fault, returned error, output          *)
(* rejection) no further invocation or validation step of that call runs   *)
(* and the failure is what the call reports: a Result Value with data null *)
(* and the error.  handlerSync's callable raises the execution-mode        *)
(* violation of an asynchronous input schema instead (see C1).             *)
(***************************************************************************)
\* the result of call c reports a failure
ReportsFailure(c) ==
  /\ ~calls[c].raised
  /\ calls[c].result.data = Null
  /\ ~IsNullish(calls[c].result.error)

\* the user function of call c threw, or its promise rejected
ThrownFault(c) == WasInvoked(c) /\ RightMode /\ UserBody(c).threw

\* the output schema rejected the candidate output of call c
OutputRejected(c) ==
  /\ ReturnedOutput(c)
  /\ HasIssues(Validate(def.output, OutputCandidate(UserBody(c).v)))

\* handlerSync's callable met a promise: the user function's, or a pending
\* validation
ModeViolation(c) ==
  /\ mode = "sync"
  /\ \/ SyncCallOverAsyncInput(c)
     \/ WasInvoked(c) /\ impl.async
     \/ PendingOutput(c)
     \/ PendingClassifier(c)
     \/ PendingHelper(c)

\* what is left undone once the call has failed
NoStepAfterFailure(c) ==
  /\ (InputRejected(c) \/ SyncCallOverAsyncInput(c)) =>
       /\ calls[c].implCalls = << >>
       /\ calls[c].outputChecks = << >>
       /\ calls[c].errorChecks = << >>
  /\ (ThrownFault(c) \/ (mode = "sync" /\ WasInvoked(c) /\ impl.async)) =>
       /\ calls[c].outputChecks = << >>
       /\ calls[c].errorChecks = << >>
  /\ ReturnedErrorSlot(c) => calls[c].outputChecks = << >>
  /\ OutputRejected(c) => calls[c].errorChecks = << >>

AtMostOnce(c) ==
  /\ Len(calls[c].implCalls) <= 1
  /\ Len(calls[c].outputChecks) <= 1

FailureIsFinal(c) ==
  /\ AtMostOnce(c)
  /\ calls[c].pc = "done" =>
       /\ NoStepAfterFailure(c)
       /\ ( \/ InputRejected(c)
            \/ ModeViolation(c)
            \/ ThrownFault(c)
            \/ OutputRejected(c)
            \/ (ReturnedErrorSlot(c) /\ ~IsNullish(calls[c].result.error)) )
            => ReportsFailure(c)

C32_FailureIsTerminal ==
  /\ [](\A c \in CallIds : FailureIsFinal(c))
  /\ [][\A c \in CallIds : calls[c].pc = "done" => calls'[c] = calls[c]]_vars

(***************************************************************************)
(* C33.  An error helper for key k validates candidate payloads in a fixed *)
(* order and returns the pair [null, normalized payload] for the first     *)
(* candidate its schema accepts, making no further validation attempt      *)
(* afterwards: first the payload as given, then the payload with its type  *)
(* field set to k verbatim, then to PascalCase(k) + "Error", then to       *)
(* UPPERCASE(k) + "_ERROR"; a type field supplied by the caller is         *)
(* replaced in the injected candidates.  Every answer of the schema comes  *)
(* at once (a helper throws at a pending one, see C19).                    *)
(***************************************************************************)
\* the three spellings of the keys of HelperKeys, written out
Spellings(key) ==
  CASE key = <<"n","e","t","w","o","r","k">> ->
         <<key, <<"N","e","t","w","o","r","k","E","r","r","o","r">>,
           <<"N","E","T","W","O","R","K","_","E","R","R","O","R">>>>
    [] key = <<"r","a","t","e","L","i","m","i","t">> ->
         <<key, <<"R","a","t","e","L","i","m","i","t","E","r","r","o","r">>,
           <<"R","A","T","E","L","I","M","I","T","_","E","R","R","O","R">>>>
    [] OTHER ->
         <<key, <<"R","a","t","e","L","i","m","i","t","E","r","r","o","r">>,
           <<"R","A","T","E","_","L","I","M","I","T","_","E","R","R","O","R">>>>

\* the candidates in the claim's order: the payload, then the payload with
\* its type replaced by each spelling
Candidates(key, payload) ==
  <<payload>> \o [i \in 1..3 |-> [payload EXCEPT !.type = Spellings(key)[i]]]

HelperReturned == applied.fn = "errorHelper" /\ applied.returned

\* the schema answers at once for every candidate
AnswersAtOnce(key, schema, payload) ==
  \A i \in 1..4 : ~AnswersPromise(schema, Candidates(key, payload)[i])

AcceptedCandidates(key, schema, payload) ==
  {i \in 1..4 : ~HasIssues(Validate(schema, Candidates(key, payload)[i]))}

FirstAcceptedCandidate(key, schema, payload) ==
  CHOOSE i \in AcceptedCandidates(key, schema, payload) :
    \A j \in AcceptedCandidates(key, schema, payload) : i <= j

HelperInOrder(key, schema, payload, value) ==
  IF AcceptedCandidates(key, schema, payload) = {}
  THEN /\ value.outcome.threw
       /\ value.attempts = Candidates(key, payload)
  ELSE /\ ~value.outcome.threw
       /\ value.outcome.v =
            List(<<Null,
                   Validate(schema,
                            Candidates(key, payload)[
                              FirstAcceptedCandidate(key, schema, payload)]).value>>)
       /\ value.attempts =
            SubSeq(Candidates(key, payload), 1,
                   FirstAcceptedCandidate(key, schema, payload))

C33_HelperOrder ==
  (HelperReturned
     /\ AnswersAtOnce(applied.args[1].items, applied.args[2].s, applied.args[3])) =>
    HelperInOrder(applied.args[1].items, applied.args[2].s, applied.args[3],
                  applied.value)

\* a payload with a type of its own that the schema accepts under the
\* first injected spelling only after replacing that type
C33_Witness ==
  /\ HelperReturned
  /\ applied.args = <<List(NetworkKey), Str("looseError"),
                      Obj(<< >>, "Network failure", 500)>>
  /\ applied.value.outcome = Return(List(<<Null, Obj(NetworkKey, "Network failure", 500)>>))
  /\ Len(applied.value.attempts) = 2

(***************************************************************************)
(* C34.  In a callable built by handler with a declared error schema whose *)
(* validation is asynchronous: invoking that schema's error helper inside  *)
(* the user function makes the call resolve to data null, isDefined false  *)
(* and a ZagoraError with message "Handler threw unknown error", whereas   *)
(* returning a full payload accepted by that schema directly as            *)
(* [null, payload] makes the call resolve to data null, isDefined true and *)
(* the validated payload as error.                                         *)
(***************************************************************************)
\* the user function of call c invoked the helper of an asynchronous schema
AsyncHelperInvoked(c) ==
  /\ calls[c].pc = "done"
  /\ WasInvoked(c)
  /\ impl.kind \in {"helperNetwork", "helperAsyncNetwork", "helperAsyncTyped",
                    "helperInvalid"}
  /\ HasHelpers(calls[c].implCalls[1])
  /\ KeyIndex(def.error.entries, HelperKey(impl.kind)) > 0
  /\ IsAsyncSchema(
       def.error.entries[KeyIndex(def.error.entries, HelperKey(impl.kind))].schema)

\* the user function of call c returned [null, payload]
ReturnedPayload(c) ==
  /\ calls[c].pc = "done"
  /\ WasInvoked(c)
  /\ ~UserBody(c).threw
  /\ HasErrorSlot(UserBody(c).v)
  /\ UserBody(c).v.items[1] = Null
  /\ def.error.declared

\* the asynchronous schemas of the error map that accept the payload
AcceptingAsyncSchemas(payload) ==
  {def.error.entries[i].schema : i \in
     {j \in 1..Len(def.error.entries) :
        /\ IsAsyncSchema(def.error.entries[j].schema)
        /\ ~HasIssues(Validate(def.error.entries[j].schema, payload))}}

TypedResult(c, payload) ==
  /\ ~calls[c].raised
  /\ calls[c].result.data = Null
  /\ calls[c].result.isDefined = TRUE
  /\ calls[c].result.error = payload

C34_AsyncErrorSchema ==
  \A c \in CallIds :
    (mode = "async" /\ impl.async) =>
      /\ AsyncHelperInvoked(c) => UnknownErrorResult(c)
      /\ ReturnedPayload(c) =>
           \A s \in AcceptingAsyncSchemas(UserBody(c).v.items[2]) :
             TypedResult(c, Validate(s, UserBody(c).v.items[2]).value)

(***************************************************************************)
(* C35.  In the handler of src/src/zagora-v3.ts, the user function is      *)
(* invoked with every resolved positional argument, in order and one entry *)
(* per logical parameter whatever the arguments' values (including 0, the  *)
(* empty string, false and null), followed by the error-helper set when an *)
(* error map is declared.  The resolved arguments are the wrapper's        *)
(* processedInputValidation at the time of the invocation.                 *)
(***************************************************************************)
\* the resolved arguments, followed by the helpers when there are any
ResolvedThenHelpers ==
  processed.items \o (IF def.error.declared
                      THEN <<createErrorHelpers(def.error.entries)>>
                      ELSE << >>)

\* the wrapper invokes the user function in this step
InvokesNow(c) == Len(calls[c].implCalls) = 0 /\ Len(calls'[c].implCalls) > 0

C35_EveryResolvedArgument ==
  [][\A c \in CallIds :
       (revision = "v3" /\ InvokesNow(c)) =>
         calls'[c].implCalls[1] = ResolvedThenHelpers']_vars

(***************************************************************************)
(* C36.  Binding a user function with handler in src/src/zagora-v3.ts does *)
(* not invoke it: the user function runs only as part of a call to the     *)
(* wrapped callable, and only after that call's input validation has       *)
(* succeeded.                                                              *)
(***************************************************************************)
\* handler(impl) has returned without calling impl
BoundWithoutInvoking == bound.status = "callable" => bound.probes = << >>

\* the input schema accepts the arguments of call c, defaults filled in
InputSucceededV3(c) ==
  ~HasIssues(Validate(def.input,
                      List(handleTupleDefaults(def.input, calls[c].rawArgs))))

C36_BindingDoesNotInvoke ==
  revision = "v3" =>
    /\ BoundWithoutInvoking
    /\ \A c \in CallIds : WasInvoked(c) => InputSucceededV3(c)

(***************************************************************************)
(* C37.  The ZagoraError reported for an execution-mode violation (a       *)
(* synchronous function behind handler, or a promise-returning function    *)
(* behind handlerSync) carries a reason tag that names the violation,      *)
(* "only accepts sync functions" / "only accepts async functions", in the  *)
(* same way the errors for validation failures, thrown faults and untyped  *)
(* returned errors carry their own reason tags.                            *)
(***************************************************************************)
\* the user function of call c does not suit the entry point
WrongFunction(c) ==
  /\ calls[c].pc = "done"
  /\ WasInvoked(c)
  /\ \/ mode = "sync" /\ impl.async
     \/ mode = "async" /\ ~impl.async /\ ~UserBody(c).threw

\* the reason tags that name a violation
ViolationReasons ==
  {"only accepts sync functions", "only accepts async functions",
   "only accepts synchronous functions",
   "Using .handlerSync only accepts synchronous functions",
   "Using .handler only accepts async functions"}

C37_ViolationReason ==
  \A c \in CallIds :
    WrongFunction(c) =>
      /\ IsZagoraError(calls[c].result.error)
      /\ calls[c].result.error.reason \in ViolationReasons

(***************************************************************************)
(* C38.  Under the assumption that every pending schema validation and the *)
(* promise returned by the user function eventually settle, every call to  *)
(* a callable built by handler eventually resolves with a Result Value;    *)
(* the wrapper itself adds no step that can block or loop forever.         *)
(***************************************************************************)
\* call c of handler's callable has been made
CalledAsync(c) == mode = "async" /\ calls[c].pc # "idle"

\* call c has resolved with a Result Value
ResolvedWithResult(c) ==
  /\ calls[c].pc = "done"
  /\ ~calls[c].raised
  /\ calls[c].result =
       createDualResult(calls[c].result.data, calls[c].result.error,
                        calls[c].result.isDefined)

StepOf(kind, bs, r, schema) ==
  CASE kind = "input" -> input(revision, bs, r, schema)
    [] kind = "output" -> output(revision, bs, r, schema)
    [] OTHER -> errors(revision, bs, r, schema)

\* the builders after the three steps in an order, each step applied to
\* the builder the step before returned, starting from the fresh builder
ChainOf(order, schemas) ==
  StepOf(order[3],
         StepOf(order[2],
                StepOf(order[1], <<builders[1]>>, 1, schemas[order[1]]),
                2, schemas[order[2]]),
         3, schemas[order[3]])

StepOrders ==
  {<<"input", "output", "errors">>, <<"input", "errors", "output">>,
   <<"output", "input", "errors">>, <<"output", "errors", "input">>,
   <<"errors", "input", "output">>, <<"errors", "output", "input">>}

SchemaChoices ==
  {[input |-> s1, output |-> s2, errors |-> e] :
     s1 \in BuildInputs, s2 \in BuildOutputs, e \in BuildErrors}

\* the three steps reach one builder whatever their order
SameForEveryOrder ==
  \A schemas \in SchemaChoices : \A order \in StepOrders :
    ChainOf(order, schemas)[4] =
      Builder(schemas.input, schemas.output, schemas.errors, created, NoMetadata)

\* a builder was constructed in this step
BuilderAdded == Len(builders') = Len(builders) + 1

\* the new builder is a builder r with at most one schema replaced by one
\* of the schemas on offer
OneSchemaReplaced(next, r) ==
  \/ \E s \in BuildInputs : next = [builders[r] EXCEPT !.input = s]
  \/ \E s \in BuildOutputs : next = [builders[r] EXCEPT !.output = s]
  \/ \E e \in BuildErrors : next = [builders[r] EXCEPT !.error = e]

====
